---- MODULE Spec2Model ----
(***************************************************************************)
(* Model of the FIS migration tool: hash-space partitioning                *)
(* (internal/segment), the snapshot cursor reader and segment exporter     *)
(* (internal/exporter), the streaming multipart upload sink (internal/s3)  *)
(* and the wave scheduler (internal/migration).                            *)
(*                                                                         *)
(* Strings over lowercase hex digits are sequences of digit values 0..15:  *)
(* the byte order of '0'..'9','a'..'f' is the order of their values, so    *)
(* Go's and SQL's string comparison is lexicographic comparison of these   *)
(* sequences.                                                              *)
(***************************************************************************)
EXTENDS Integers, Sequences, FiniteSets, TLC

VARIABLES
    cfgSegments,        \* cfg.Segments, the argument of SegmentHashSpace
    call,               \* the call of a function checked on its own: arguments and result
    cfgBatchSize,       \* cfg.BatchSize
    cfgMaxParallelSegs, \* cfg.MaxParallelSegs
    env,                \* whether the database can be reached and the AWS configuration loads
    table,              \* the rows of the fis_aggr table (all tenants)
    writes,             \* number of statements concurrent writers have run
    tx,                 \* per segment: the exporter's transaction and its snapshot
    s3up,               \* per segment: the multipart upload session in the store
    objects,            \* the objects visible in the bucket
    stream,             \* per segment: the MultipartUploadStream of the exporter
    worker,             \* per segment: the goroutine running ProcessSegment
    ppc,                \* ProcessSegments: position
    segments,           \* ProcessSegments: the segment list it was given
    wi,                 \* ProcessSegments: the loop variable i
    wg,                 \* ProcessSegments: the WaitGroup counter
    mu,                 \* ProcessSegments: the mutex (0 free, else the holder)
    allCSVFiles,        \* ProcessSegments: the shared result slice
    logs                \* the log records written so far

cfgVars == <<cfgSegments, cfgBatchSize, cfgMaxParallelSegs, env>>
dbVars == <<table, writes, tx>>
s3Vars == <<s3up, objects, stream>>
schedVars == <<ppc, segments, wi, wg, mu, allCSVFiles>>

vars == <<cfgSegments, call, cfgBatchSize, cfgMaxParallelSegs, env, table, writes, tx,
          s3up, objects, stream, worker, ppc, segments, wi, wg, mu, allCSVFiles,
          logs>>

----------------------------------------------------------------------------
(* Strings *)

Min(a, b) == IF a < b THEN a ELSE b

\* Go / SQL string comparison a < b (bytewise lexicographic; a proper prefix
\* is smaller than any string it begins).
StrLess(a, b) ==
    \/ \E i \in 1..Min(Len(a), Len(b)) :
          /\ a[i] < b[i]
          /\ \A j \in 1..(i - 1) : a[j] = b[j]
    \/ /\ Len(a) < Len(b)
       /\ \A j \in 1..Len(a) : a[j] = b[j]

StrLeq(a, b) == a = b \/ StrLess(a, b)

----------------------------------------------------------------------------
(* internal/segment *)

\* The size of the hash space and the largest segment count.
HashSpace == 256

Segment(index, startHex, endHex) ==
    [Index |-> index, StartHex |-> startHex, EndHex |-> endHex]

Sentinel == <<1, 0, 0>>   \* "100"

\* fmt.Sprintf("%02x", val), and "100" for val >= 256.
intToHex(val) ==
    IF val >= HashSpace THEN Sentinel ELSE <<val \div 16, val % 16>>

\* SegStep giving the extra unit to the last `remainder` segments.
SegStepRemainderLast(i, start, nsegs) ==
    LET segmentSize == HashSpace \div nsegs
        remainder   == HashSpace % nsegs
        size        == IF i >= nsegs - remainder THEN segmentSize + 1 ELSE segmentSize
        end0        == start + size
        end         == IF end0 > HashSpace THEN HashSpace ELSE end0
    IN  [segs |-> <<Segment(i, intToHex(start), intToHex(end))>>, start |-> end]

\* SegStep without the distribution of the remainder.
SegStepNoRemainder(i, start, nsegs) ==
    LET end == start + HashSpace \div nsegs
    IN  [segs |-> <<Segment(i, intToHex(start), intToHex(end))>>, start |-> end]

\* One iteration of the loop of SegmentHashSpace: the segment of index i
\* given the running start, and the next start.
SegStep(i, start, nsegs) ==
    LET segmentSize == HashSpace \div nsegs
        remainder   == HashSpace % nsegs
        size        == IF i < remainder THEN segmentSize + 1 ELSE segmentSize
        end0        == start + size
        end         == IF end0 > HashSpace THEN HashSpace ELSE end0
    IN  [segs |-> <<Segment(i, intToHex(start), intToHex(end))>>, start |-> end]

\* The iterations a <= i < b of the loop, in order, from the running start
\* (split in halves to keep the evaluation shallow).
RECURSIVE SegLoop(_, _, _, _)
SegLoop(a, b, start, nsegs) ==
    IF a >= b THEN [segs |-> <<>>, start |-> start]
    ELSE IF b = a + 1 THEN SegStep(a, start, nsegs)
    ELSE LET mid   == (a + b) \div 2
             left  == SegLoop(a, mid, start, nsegs)
             right == SegLoop(mid, b, left.start, nsegs)
         IN  [segs |-> left.segs \o right.segs, start |-> right.start]

\* The rewrite of the last segment's EndHex after the loop.
FixLast(segs) ==
    IF Len(segs) > 0 /\ segs[Len(segs)].EndHex = <<15, 15>>
    THEN [segs EXCEPT ![Len(segs)].EndHex = Sentinel]
    ELSE segs

\* SegmentHashSpace without the upper limit on the count.
SegmentHashSpaceNoUpperLimit(nsegs) ==
    IF nsegs <= 0
    THEN [segs |-> <<>>, err |-> TRUE]
    ELSE [segs |-> FixLast(SegLoop(0, nsegs, 0, nsegs).segs), err |-> FALSE]

SegmentHashSpace(nsegs) ==
    IF nsegs <= 0 \/ nsegs > HashSpace
    THEN [segs |-> <<>>, err |-> TRUE]
    ELSE [segs |-> FixLast(SegLoop(0, nsegs, 0, nsegs).segs), err |-> FALSE]

\* Boundaries derived as equal shares of floor(256/n) values.
SegmentToHexRangeEvenSplit(segmentIndex, totalSegments) ==
    IF segmentIndex < 0 \/ segmentIndex >= totalSegments
          \/ totalSegments > HashSpace
    THEN [start |-> <<>>, end |-> <<>>, err |-> TRUE]
    ELSE LET size == HashSpace \div totalSegments
         IN  [start |-> intToHex(segmentIndex * size),
              end   |-> IF segmentIndex = totalSegments - 1 THEN Sentinel
                        ELSE intToHex((segmentIndex + 1) * size),
              err   |-> FALSE]

SegmentToHexRange(segmentIndex, totalSegments) ==
    IF segmentIndex < 0 \/ segmentIndex >= totalSegments
    THEN [start |-> <<>>, end |-> <<>>, err |-> TRUE]
    ELSE LET r == SegmentHashSpace(totalSegments)
         IN  IF r.err \/ segmentIndex >= Len(r.segs)
             THEN [start |-> <<>>, end |-> <<>>, err |-> TRUE]
             ELSE [start |-> r.segs[segmentIndex + 1].StartHex,
                   end   |-> r.segs[segmentIndex + 1].EndHex,
                   err   |-> FALSE]

\* HashInSegment with the end of the range included.
HashInSegmentEndInclusive(hash, seg) ==
    IF Len(hash) < 2 THEN FALSE
    ELSE LET hashPrefix == SubSeq(hash, 1, 2)
         IN  StrLeq(seg.StartHex, hashPrefix) /\ StrLeq(hashPrefix, seg.EndHex)

HashInSegment(hash, seg) ==
    IF Len(hash) < 2 THEN FALSE
    ELSE LET hashPrefix == SubSeq(hash, 1, 2)
         IN  StrLeq(seg.StartHex, hashPrefix) /\ StrLess(hashPrefix, seg.EndHex)

\* big.Int.SetString(hexStr, 16) on a string of hex digits.
RECURSIVE HexToInt(_)
HexToInt(hexStr) ==
    IF Len(hexStr) = 0 THEN 0
    ELSE 16 * HexToInt(SubSeq(hexStr, 1, Len(hexStr) - 1)) + hexStr[Len(hexStr)]

----------------------------------------------------------------------------
(* Rows of fis_aggr and their serialization (internal/exporter) *)

\* A NULL column (an invalid sql.Null*, a nil pointer) is the empty sequence,
\* a value v is <<v>>.
NULL == <<>>

\* cfg.TenantID of the job, and a tenant whose rows share the table.
TenantID == 7
OtherTenant == 8

Row(tenant, hash, version) ==
    [TenantID |-> tenant, Hash |-> hash, Aggr |-> <<30>>,
     LastModified |-> NULL, Version |-> version]

\* fmt.Sprintf("%d", n) for n >= 0: the decimal digits.
RECURSIVE Decimal(_)
Decimal(n) == IF n < 10 THEN <<n>> ELSE Append(Decimal(n \div 10), n % 10)

formatInt(i) == IF i = NULL THEN <<>> ELSE Decimal(i[1])

\* t.Format("2006-01-02 15:04:05"): whole seconds.
formatTimestamp(t) == IF t = NULL THEN <<>> ELSE <<31, t[1]>>

\* The header record: tenantid, hash, aggr, last_modified, version (each
\* column name one symbol outside the hex digits).
Header == << <<20>>, <<21>>, <<22>>, <<23>>, <<24>> >>

Record(row) ==
    <<Decimal(row.TenantID), row.Hash, row.Aggr,
      formatTimestamp(row.LastModified), formatInt(row.Version)>>

\* rowsToCSVBytes writing the header whatever includeHeader says.
rowsToCSVBytesAlwaysHeader(rows, includeHeader) ==
    <<Header>> \o [k \in 1..Len(rows) |-> Record(rows[k])]

\* The CSV text as its sequence of records (one line each).
rowsToCSVBytes(rows, includeHeader) ==
    (IF includeHeader THEN <<Header>> ELSE <<>>)
        \o [k \in 1..Len(rows) |-> Record(rows[k])]

\* HashCondition with the cursor row included again (hash >= lastHash).
HashConditionCursorInclusive(row, seg, lastHash) ==
    /\ row.TenantID = TenantID
    /\ lastHash # <<>> => StrLeq(lastHash, row.Hash)
    /\ StrLeq(seg.StartHex, row.Hash)
    /\ IF seg.EndHex # Sentinel THEN StrLess(row.Hash, seg.EndHex)
                                ELSE StrLeq(row.Hash, <<15, 15>>)

\* HashCondition with the end of a regular segment included (hash <= endHex).
HashConditionEndInclusive(row, seg, lastHash) ==
    /\ row.TenantID = TenantID
    /\ lastHash # <<>> => StrLess(lastHash, row.Hash)
    /\ StrLeq(seg.StartHex, row.Hash)
    /\ StrLeq(row.Hash, IF seg.EndHex # Sentinel THEN seg.EndHex ELSE <<15, 15>>)

\* The WHERE clause of querySegmentInTx for one row.
HashCondition(row, seg, lastHash) ==
    LET useLessThan == seg.EndHex # Sentinel
        endHex      == IF useLessThan THEN seg.EndHex ELSE <<15, 15>>
        hasCursor   == lastHash # <<>>
    IN  /\ row.TenantID = TenantID
        /\ hasCursor => StrLess(lastHash, row.Hash)
        /\ StrLeq(seg.StartHex, row.Hash)
        /\ IF useLessThan THEN StrLess(row.Hash, endHex)
                          ELSE StrLeq(row.Hash, endHex)

\* ORDER BY hash LIMIT limit over a set of rows.
RECURSIVE OrderLimit(_, _)
OrderLimit(rows, limit) ==
    IF rows = {} \/ limit <= 0 THEN <<>>
    ELSE LET first == CHOOSE r \in rows : \A q \in rows : StrLeq(r.Hash, q.Hash)
         IN  <<first>> \o OrderLimit(rows \ {first}, limit - 1)

\* The rows the query returns when run against the snapshot `snap`.
querySegmentInTx(snap, seg, lastHash, batchSize) ==
    OrderLimit({r \in snap : HashCondition(r, seg, lastHash)}, batchSize)

\* The text of a string of hex digits or of a decimal number, one
\* character per element.
Chars == <<"0", "1", "2", "3", "4", "5", "6", "7", "8", "9",
           "a", "b", "c", "d", "e", "f">>
Text(digits) == [k \in 1..Len(digits) |-> Chars[digits[k] + 1]]

\* The S3 key ExportSegment builds, as the pieces the two Sprintf calls
\* join: %s and %d arguments between the literal text of the formats.
S3Prefix == "prefix"
TableName == "fis_aggr"

S3KeyOfNoTenantInFilename(prefix, tenant, tableName, seg) ==
    LET filename == <<tableName, ".hash-">> \o Text(seg.StartHex) \o <<"-">>
                        \o Text(seg.EndHex) \o <<".csv">>
    IN  <<prefix, "/tenant-">> \o Text(Decimal(tenant))
            \o <<"/", tableName, "/">> \o filename

S3KeyOf(prefix, tenant, tableName, seg) ==
    LET filename == <<"tenant-">> \o Text(Decimal(tenant))
                        \o <<".", tableName, ".hash-">> \o Text(seg.StartHex)
                        \o <<"-">> \o Text(seg.EndHex) \o <<".csv">>
    IN  <<prefix, "/tenant-">> \o Text(Decimal(tenant))
            \o <<"/", tableName, "/">> \o filename

S3Key(seg) == S3KeyOf(S3Prefix, TenantID, TableName, seg)

----------------------------------------------------------------------------
(* The state before main calls ProcessSegments, common to every            *)
(* specification: no transaction, no upload session, no goroutine.         *)

\* The environment of a run: whether sql.Open and the ping succeed, and
\* whether the AWS configuration loads.
Environments == [dbOk : BOOLEAN, awsOk : BOOLEAN]
Reachable == [dbOk |-> TRUE, awsOk |-> TRUE]

\* A CSVFile that does not carry the key.
CSVFileWithoutKey(s3Key, seg, rowCount) ==
    [S3Key |-> <<>>, Segment |-> seg, RowCount |-> rowCount]

\* &CSVFile{FilePath: "", S3Key: s3Key, Segment: seg, RowCount: totalRows}
CSVFile(s3Key, seg, rowCount) ==
    [S3Key |-> s3Key, Segment |-> seg, RowCount |-> rowCount]

NoFile == [S3Key |-> <<>>, Segment |-> Segment(0 - 1, <<>>, <<>>), RowCount |-> 0]
NoRet == [returned |-> FALSE, file |-> NoFile, err |-> ""]

IdleWorker ==
    [pc |-> "idle", err |-> FALSE, lastHash |-> <<>>, cursor |-> <<>>,
     batchNum |-> 0,
     totalRows |-> 0, headerWritten |-> FALSE, rows |-> <<>>, csvBytes |-> <<>>,
     attempt |-> 0, slept |-> 0, ret |-> NoRet, csvFiles |-> <<>>, tmp |-> <<>>]

NoTx == [state |-> "none", hasSnap |-> FALSE, snap |-> {}]
NoUpload == [state |-> "none", key |-> <<>>, parts |-> <<>>, aborts |-> 0,
             completes |-> 0, completeRequests |-> 0]
NoStream == [created |-> FALSE, key |-> <<>>, parts |-> <<>>, partNumber |-> 0]

\* `nworkers` is the number of goroutines ProcessSegments will start (none
\* when it is never called).
IdleJob(nworkers) ==
    /\ writes = 0
    /\ tx = [i \in 1..nworkers |-> NoTx]
    /\ s3up = [i \in 1..nworkers |-> NoUpload]
    /\ stream = [i \in 1..nworkers |-> NoStream]
    /\ worker = [i \in 1..nworkers |-> IdleWorker]
    /\ objects = {}
    /\ ppc = "start"
    /\ wi = 0
    /\ wg = 0
    /\ mu = 0
    /\ allCSVFiles = <<>>
    /\ logs = {}

Idle(nworkers) ==
    /\ segments = SegmentHashSpace(cfgSegments).segs
    /\ IdleJob(nworkers)

----------------------------------------------------------------------------
(* SpecSegment: the functions of the segment package and the reader's      *)
(* filter, each called once on inputs drawn from a bounded set.            *)

\* Hashes tried: every two-character prefix followed by one more character,
\* some two-character strings, and the strings shorter than two characters.
Hashes ==
    {<<a, b, 10>> : a \in 0..15, b \in 0..15}
        \cup {<<0, 0>>, <<8, 0>>, <<15, 15>>}
        \cup {<<>>, <<0>>, <<15>>}

InitSegment ==
    /\ cfgSegments \in (0 - 1)..(HashSpace + 1)
    /\ call = [op |-> "none"]
    /\ cfgBatchSize = 1
    /\ cfgMaxParallelSegs = 1
    /\ env = Reachable
    /\ table = {}
    /\ Idle(0)

\* What the calls of SpecSegment leave unchanged: everything but `call`.
NotCalled ==
    UNCHANGED <<cfgSegments, cfgBatchSize, cfgMaxParallelSegs, env, table, writes, tx,
                s3up, objects, stream, worker, ppc, segments, wi, wg, mu,
                allCSVFiles, logs>>

CallSegmentHashSpace ==
    /\ call.op = "none"
    /\ call' = [op |-> "SegmentHashSpace", n |-> cfgSegments,
                ret |-> SegmentHashSpace(cfgSegments)]
    /\ NotCalled

\* The indexes tried for a partition in n: the first, middle and last ones
\* and their neighbours outside the range.
Indexes(n) ==
    {0 - 1, 0, 1, 2, n \div 2, n - 2, n - 1, n, n + 1}

CallSegmentToHexRange ==
    /\ call.op = "none"
    /\ \E i \in Indexes(cfgSegments) :
          call' = [op |-> "SegmentToHexRange", index |-> i, n |-> cfgSegments,
                   ret |-> SegmentToHexRange(i, cfgSegments)]
    /\ NotCalled

\* HashInSegment(hash, seg) for every segment seg of the partition main
\* computed.
CallHashInSegment ==
    /\ call.op = "none"
    /\ segments # <<>>
    /\ \E hash \in Hashes :
          call' = [op |-> "HashInSegment", hash |-> hash,
                   ret |-> {i \in 1..Len(segments) :
                               HashInSegment(hash, segments[i])}]
    /\ NotCalled

\* The first page query of every segment over a table holding one row of
\* the tenant.
CallQuerySegmentInTx ==
    /\ call.op = "none"
    /\ segments # <<>>
    /\ \E hash \in Hashes :
          call' = [op |-> "querySegmentInTx", hash |-> hash,
                   ret |-> {i \in 1..Len(segments) :
                               querySegmentInTx({Row(TenantID, hash, NULL)},
                                                segments[i], <<>>, 1) # <<>>}]
    /\ NotCalled

NextSegment ==
    \/ CallSegmentHashSpace
    \/ CallSegmentToHexRange
    \/ CallHashInSegment
    \/ CallQuerySegmentInTx

SpecSegment == InitSegment /\ [][NextSegment]_vars

----------------------------------------------------------------------------
(* The database: the table, concurrent writers, REPEATABLE READ snapshots  *)

\* Number of statements the concurrent writers (fis-updater) run.
MaxWrites == 1

\* The hashes of the rows the writers insert, delete or update while the job
\* runs: "3fb", "40c" and "c0e".
WriterHashes == {<<3, 15, 11>>, <<4, 0, 12>>, <<12, 0, 14>>}

Exists(t, h) == \E r \in table : r.TenantID = t /\ r.Hash = h

\* INSERT of a new row of the tenant (UNIQUE(tenantid, hash)).
WriterInsert ==
    /\ writes < MaxWrites
    /\ \E h \in WriterHashes :
          /\ ~Exists(TenantID, h)
          /\ table' = table \cup {Row(TenantID, h, <<1>>)}
    /\ writes' = writes + 1
    /\ UNCHANGED <<cfgSegments, call, cfgBatchSize, cfgMaxParallelSegs, env, tx, s3up,
                   objects, stream, worker, ppc, segments, wi, wg, mu,
                   allCSVFiles, logs>>

\* DELETE of a row of the tenant.
WriterDelete ==
    /\ writes < MaxWrites
    /\ \E r \in table :
          /\ r.TenantID = TenantID
          /\ r.Hash \in WriterHashes
          /\ table' = table \ {r}
    /\ writes' = writes + 1
    /\ UNCHANGED <<cfgSegments, call, cfgBatchSize, cfgMaxParallelSegs, env, tx, s3up,
                   objects, stream, worker, ppc, segments, wi, wg, mu,
                   allCSVFiles, logs>>

\* UPDATE of a row of the tenant: its version moves on.
WriterUpdate ==
    /\ writes < MaxWrites
    /\ \E r \in table :
          /\ r.TenantID = TenantID
          /\ r.Hash \in WriterHashes
          /\ table' = (table \ {r}) \cup
                {[r EXCEPT !.Version = IF @ = NULL THEN <<1>> ELSE <<@[1] + 1>>]}
    /\ writes' = writes + 1
    /\ UNCHANGED <<cfgSegments, call, cfgBatchSize, cfgMaxParallelSegs, env, tx, s3up,
                   objects, stream, worker, ppc, segments, wi, wg, mu,
                   allCSVFiles, logs>>

\* ReadView without a snapshot: every statement reads the current table.
ReadCommitted(t) == table

\* What a statement of transaction t reads: under REPEATABLE READ the first
\* consistent read of the transaction fixes the snapshot every later read
\* of it sees.
ReadView(t) == IF t.hasSnap THEN t.snap ELSE table

----------------------------------------------------------------------------
(* The object store and the MultipartUploadStream (internal/s3)            *)

\* Initial retry delay, in seconds.
initialRetryDelay == 1

\* time.Sleep(initialRetryDelay * time.Duration(attempt)): the wait after
\* the failed attempt `attempt`, in seconds.
RetryDelay(attempt) == initialRetryDelay * attempt

\* A budget of one more attempt.
SixAttempts == 5 + 1

\* Max retries for S3 operations.
maxS3Retries == 5

\* abortMultipartUpload that issues no request.
abortNothing(up, ok) == up

\* abortMultipartUpload: the AbortMultipartUpload request is issued; when it
\* fails the failure is logged and nothing else happens.
abortMultipartUpload(up, ok) ==
    [up EXCEPT !.aborts = @ + 1,
               !.state = IF ok /\ @ = "open" THEN "aborted" ELSE @]

\* The store keeps the data of part `partNumber` of the session.
StorePart(up, partNumber, data) ==
    [up EXCEPT !.parts = (partNumber :> data) @@ @]

\* CompleteMultipartUpload is accepted only for an open session and a part
\* list in ascending part-number order naming stored parts by their ETag
\* (the ETag of a part is its content).
Acceptable(up, parts) ==
    /\ up.state = "open"
    /\ Len(parts) > 0
    /\ \A k \in 1..Len(parts) :
          /\ parts[k].PartNumber \in DOMAIN up.parts
          /\ up.parts[parts[k].PartNumber] = parts[k].ETag
    /\ \A k \in 1..(Len(parts) - 1) : parts[k].PartNumber < parts[k + 1].PartNumber

\* The object a completed session becomes: its listed parts, concatenated.
RECURSIVE Assemble(_, _)
Assemble(up, parts) ==
    IF parts = <<>> THEN <<>>
    ELSE up.parts[Head(parts).PartNumber] \o Assemble(up, Tail(parts))

\* A bucket in which a completed upload extends the object already there.
PutObjectAppend(objs, key, content) ==
    {o \in objs : o.key # key}
        \cup {[key |-> key, content |-> o.content \o content] :
                 o \in {x \in objs : x.key = key}}
        \cup (IF \E o \in objs : o.key = key THEN {}
              ELSE {[key |-> key, content |-> content]})

\* PUT semantics of the bucket: one object per key.
PutObject(objs, key, content) ==
    {o \in objs : o.key # key} \cup {[key |-> key, content |-> content]}

----------------------------------------------------------------------------
(* ExportSegment (internal/exporter), one goroutine per segment            *)

\* Safety limit on the page queries of one segment: 10000 in the source, a
\* small limit here so that tables of a few rows reach it.
maxBatches == 2

Workers == DOMAIN worker

\* A return without the deferred tx.Rollback().
ReturnWithoutRollback(i, w, file, errmsg, up, abortOk) ==
    /\ worker' = [worker EXCEPT ![i] =
                     [w EXCEPT !.pc = "returned",
                               !.ret = [returned |-> TRUE, file |-> file,
                                        err |-> errmsg]]]
    /\ tx' = tx
    /\ s3up' = [s3up EXCEPT ![i] =
                   IF w.err /\ stream[i].created
                   THEN abortMultipartUpload(up, abortOk) ELSE up]

\* ExportSegment returns (file, err) from the state w of its locals: the
\* deferred tx.Rollback() runs (a no-op once committed), and the deferred
\* closure aborts the stream when the function's variable err is non-nil.
Return(i, w, file, errmsg, up, abortOk) ==
    /\ worker' = [worker EXCEPT ![i] =
                     [w EXCEPT !.pc = "returned",
                               !.ret = [returned |-> TRUE, file |-> file,
                                        err |-> errmsg]]]
    /\ tx' = [tx EXCEPT ![i].state = IF @ = "open" THEN "rolledback" ELSE @]
    /\ s3up' = [s3up EXCEPT ![i] =
                   IF w.err /\ stream[i].created
                   THEN abortMultipartUpload(up, abortOk) ELSE up]

\* uploader.NewMultipartUploadStream(s3Key): CreateMultipartUpload.
NewMultipartUploadStream(i) ==
    /\ worker[i].pc = "start"
    /\ \/ /\ s3up' = [s3up EXCEPT ![i] =
                        [state |-> "open", key |-> S3Key(segments[i]),
                         parts |-> <<>>, aborts |-> 0, completes |-> 0,
                         completeRequests |-> 0]]
          /\ stream' = [stream EXCEPT ![i] =
                          [created |-> TRUE, key |-> S3Key(segments[i]),
                           parts |-> <<>>, partNumber |-> 1]]
          /\ worker' = [worker EXCEPT ![i].pc = "begin_tx"]
          /\ UNCHANGED tx
       \/ /\ Return(i, worker[i], NoFile, "failed to initiate multipart upload",
                    s3up[i], FALSE)
          /\ UNCHANGED stream
    /\ UNCHANGED <<cfgSegments, call, cfgBatchSize, cfgMaxParallelSegs, env, table,
                   writes, objects, ppc, segments, wi, wg, mu, allCSVFiles, logs>>

\* BeginTx whose error is kept in a variable of its own, which the deferred
\* closure does not read.
BeginTxErrShadowed(i) ==
    /\ worker[i].pc = "begin_tx"
    /\ \/ /\ tx' = [tx EXCEPT ![i] = [state |-> "open", hasSnap |-> FALSE,
                                      snap |-> {}]]
          /\ worker' = [worker EXCEPT ![i].pc = "query"]
          /\ UNCHANGED s3up
       \/ Return(i, worker[i], NoFile, "failed to start transaction", s3up[i], FALSE)
    /\ UNCHANGED <<cfgSegments, call, cfgBatchSize, cfgMaxParallelSegs, env, table,
                   writes, objects, stream, ppc, segments, wi, wg, mu,
                   allCSVFiles, logs>>

\* e.db.BeginTx(ctx, REPEATABLE READ); its error is assigned to the
\* function's err, which the deferred closure reads.
BeginTx(i) ==
    /\ worker[i].pc = "begin_tx"
    /\ \/ /\ tx' = [tx EXCEPT ![i] = [state |-> "open", hasSnap |-> FALSE,
                                      snap |-> {}]]
          /\ worker' = [worker EXCEPT ![i].pc = "query"]
          /\ UNCHANGED s3up
       \/ \E abortOk \in BOOLEAN :
             Return(i, [worker[i] EXCEPT !.err = TRUE], NoFile,
                    "failed to start transaction", s3up[i], abortOk)
    /\ UNCHANGED <<cfgSegments, call, cfgBatchSize, cfgMaxParallelSegs, env, table,
                   writes, objects, stream, ppc, segments, wi, wg, mu,
                   allCSVFiles, logs>>

\* One round of the loop up to the upload: the page query, the break on an
\* empty page, the cursor update and the conversion to CSV.
Query(i) ==
    /\ worker[i].pc = "query"
    /\ LET w      == worker[i]
           cursor == IF w.batchNum = 0 THEN <<>> ELSE w.lastHash
           view   == ReadView(tx[i])
           rows   == querySegmentInTx(view, segments[i], cursor, cfgBatchSize)
       IN  \/ /\ tx' = [tx EXCEPT ![i].hasSnap = TRUE, ![i].snap = view]
              /\ worker' = [worker EXCEPT ![i] =
                    IF Len(rows) = 0
                    THEN [w EXCEPT !.pc = "commit", !.rows = rows,
                                   !.cursor = cursor]
                    ELSE [w EXCEPT !.pc = "upload",
                                   !.rows = rows,
                                   !.cursor = cursor,
                                   !.lastHash = rows[Len(rows)].Hash,
                                   !.csvBytes = rowsToCSVBytes(rows, ~w.headerWritten),
                                   !.headerWritten = TRUE,
                                   !.attempt = 1, !.slept = 0]]
              /\ UNCHANGED s3up
           \/ Return(i, w, NoFile, "failed to query segment", s3up[i], FALSE)
    /\ UNCHANGED <<cfgSegments, call, cfgBatchSize, cfgMaxParallelSegs, env, table,
                   writes, objects, stream, ppc, segments, wi, wg, mu,
                   allCSVFiles, logs>>

\* Uploaded without the loop condition: a full page is always followed by
\* another query.
UploadedNoCeiling(w) ==
    LET total == w.totalRows + Len(w.rows)
    IN  IF Len(w.rows) < cfgBatchSize
        THEN [w EXCEPT !.totalRows = total, !.attempt = 0, !.slept = 0, !.pc = "commit"]
        ELSE [w EXCEPT !.totalRows = total, !.attempt = 0, !.slept = 0,
                       !.batchNum = @ + 1, !.pc = "query"]

\* Uploaded without the break on a short page.
UploadedNoBreakOnShort(w) ==
    [w EXCEPT !.totalRows = @ + Len(w.rows), !.attempt = 0, !.slept = 0,
              !.batchNum = @ + 1,
              !.pc = IF w.batchNum + 1 < maxBatches THEN "query" ELSE "commit"]

\* Uploaded with the break taken on a full page too.
UploadedBreakOnFull(w) ==
    [w EXCEPT !.totalRows = @ + Len(w.rows), !.attempt = 0, !.slept = 0, !.pc = "commit"]

\* The rest of the round once UploadPart returned nil: the row count, the
\* break on a short page, batchNum++ and the loop condition.
Uploaded(w) ==
    LET total == w.totalRows + Len(w.rows)
    IN  IF Len(w.rows) < cfgBatchSize
        THEN [w EXCEPT !.totalRows = total, !.attempt = 0, !.slept = 0, !.pc = "commit"]
        ELSE [w EXCEPT !.totalRows = total, !.attempt = 0, !.slept = 0,
                       !.batchNum = @ + 1,
                       !.pc = IF w.batchNum + 1 < maxBatches THEN "query"
                              ELSE "commit"]

\* A stream that records the part without moving to the next number.
AppendPartSameNumber(m, data) ==
    [m EXCEPT !.parts = Append(@, [PartNumber |-> m.partNumber, ETag |-> data])]

\* m.parts = append(m.parts, CompletedPart{ETag, PartNumber}); m.partNumber++
AppendPart(m, data) ==
    [m EXCEPT !.parts = Append(@, [PartNumber |-> m.partNumber, ETag |-> data]),
              !.partNumber = @ + 1]

\* One attempt of stream.UploadPart(csvBytes).
UploadPart(i) ==
    /\ worker[i].pc = "upload"
    /\ LET w == worker[i]
           m == stream[i]
       IN  IF Len(w.csvBytes) = 0
           THEN /\ worker' = [worker EXCEPT ![i] = Uploaded(w)]
                /\ UNCHANGED <<tx, s3up, stream>>
           ELSE \/ /\ s3up[i].state = "open"
                   /\ s3up' = [s3up EXCEPT ![i] =
                                  StorePart(@, m.partNumber, w.csvBytes)]
                   /\ stream' = [stream EXCEPT ![i] = AppendPart(m, w.csvBytes)]
                   /\ worker' = [worker EXCEPT ![i] = Uploaded(w)]
                   /\ UNCHANGED tx
                \/ /\ w.attempt < maxS3Retries
                   /\ worker' = [worker EXCEPT ![i].attempt = @ + 1,
                                               ![i].slept = RetryDelay(w.attempt)]
                   /\ UNCHANGED <<tx, s3up, stream>>
                \/ /\ w.attempt >= maxS3Retries
                   /\ \E abortOk \in BOOLEAN :
                         Return(i, w, NoFile,
                                "failed to upload batch as multipart part",
                                abortMultipartUpload(s3up[i], abortOk), FALSE)
                   /\ UNCHANGED stream
    /\ UNCHANGED <<cfgSegments, call, cfgBatchSize, cfgMaxParallelSegs, env, table,
                   writes, objects, ppc, segments, wi, wg, mu, allCSVFiles, logs>>

\* tx.Commit() after the loop, and the warning when the limit was reached.
Commit(i) ==
    /\ worker[i].pc = "commit"
    /\ LET w == worker[i]
       IN  \/ /\ tx' = [tx EXCEPT ![i].state = "committed"]
              /\ logs' = IF w.batchNum >= maxBatches
                         THEN logs \cup {[msg |-> "Segment export hit maximum batch limit",
                                          seg |-> segments[i].Index]}
                         ELSE logs
              /\ worker' = [worker EXCEPT ![i].pc =
                               IF w.totalRows = 0 THEN "nodata" ELSE "complete"]
              /\ UNCHANGED s3up
           \/ /\ Return(i, w, NoFile, "failed to commit transaction", s3up[i], FALSE)
              /\ UNCHANGED logs
    /\ UNCHANGED <<cfgSegments, call, cfgBatchSize, cfgMaxParallelSegs, env, table,
                   writes, objects, stream, ppc, segments, wi, wg, mu,
                   allCSVFiles>>

\* A return of nil, nil that leaves the session open.
NoDataNoAbort(i) ==
    /\ worker[i].pc = "nodata"
    /\ Return(i, worker[i], NoFile, "", s3up[i], FALSE)
    /\ UNCHANGED <<cfgSegments, call, cfgBatchSize, cfgMaxParallelSegs, env, table,
                   writes, objects, stream, ppc, segments, wi, wg, mu,
                   allCSVFiles, logs>>

\* totalRows == 0: stream.Abort() and return nil, nil.
NoData(i) ==
    /\ worker[i].pc = "nodata"
    /\ \E abortOk \in BOOLEAN :
          Return(i, worker[i], NoFile, "",
                 abortMultipartUpload(s3up[i], abortOk), FALSE)
    /\ UNCHANGED <<cfgSegments, call, cfgBatchSize, cfgMaxParallelSegs, env, table,
                   writes, objects, stream, ppc, segments, wi, wg, mu,
                   allCSVFiles, logs>>

\* CompletedParts sending the first part only.
CompletedPartsFirstOnly(m) == SubSeq(m.parts, 1, 1)

\* The part list Complete sends: MultipartUpload.Parts = m.parts.
CompletedParts(m) == m.parts

\* Complete without the check of the part list: the completion request is
\* sent whatever the list holds.
CompleteWithoutCheck(i) ==
    /\ worker[i].pc = "complete"
    /\ LET w == worker[i]
           m == stream[i]
       IN  \/ /\ Acceptable(s3up[i], CompletedParts(m))
              /\ objects' = PutObject(objects, m.key,
                                      Assemble(s3up[i], CompletedParts(m)))
              /\ Return(i, w,
                        CSVFile(S3Key(segments[i]), segments[i], w.totalRows),
                        "",
                        [s3up[i] EXCEPT !.state = "completed",
                                        !.completes = @ + 1,
                                        !.completeRequests = @ + 1], FALSE)
           \/ /\ \E abortOk \in BOOLEAN :
                    Return(i, w, NoFile, "failed to complete multipart upload",
                           abortMultipartUpload(
                               [s3up[i] EXCEPT !.completeRequests = @ + 1],
                               abortOk), FALSE)
              /\ UNCHANGED objects
    /\ UNCHANGED <<cfgSegments, call, cfgBatchSize, cfgMaxParallelSegs, env, table,
                   writes, stream, ppc, segments, wi, wg, mu, allCSVFiles, logs>>

\* stream.Complete() and the return of the CSVFile.
Complete(i) ==
    /\ worker[i].pc = "complete"
    /\ LET w == worker[i]
           m == stream[i]
       IN  IF Len(m.parts) = 0
           THEN /\ \E abortOk \in BOOLEAN :
                      Return(i, w, NoFile,
                             "failed to complete multipart upload: no parts uploaded",
                             abortMultipartUpload(s3up[i], abortOk), FALSE)
                /\ UNCHANGED objects
           ELSE \/ /\ Acceptable(s3up[i], CompletedParts(m))
                   /\ objects' = PutObject(objects, m.key,
                                           Assemble(s3up[i], CompletedParts(m)))
                   /\ Return(i, w,
                             CSVFile(S3Key(segments[i]), segments[i], w.totalRows),
                             "",
                             [s3up[i] EXCEPT !.state = "completed",
                                             !.completes = @ + 1,
                                             !.completeRequests = @ + 1], FALSE)
                \/ /\ \E abortOk \in BOOLEAN :
                         Return(i, w, NoFile, "failed to complete multipart upload",
                                abortMultipartUpload(
                                    [s3up[i] EXCEPT !.completeRequests = @ + 1],
                                    abortOk), FALSE)
                   /\ UNCHANGED objects
    /\ UNCHANGED <<cfgSegments, call, cfgBatchSize, cfgMaxParallelSegs, env, table,
                   writes, stream, ppc, segments, wi, wg, mu, allCSVFiles, logs>>

----------------------------------------------------------------------------
(* ProcessSegments and ProcessSegment (internal/migration)                 *)

\* The default of maxParallel when cfg.MaxParallelSegs is not positive.
DefaultMaxParallel == 8

\* A scheduler without a limit: one wave of all segments.
maxParallelAllAtOnce == Len(segments) + 1

maxParallel ==
    IF cfgMaxParallelSegs <= 0 THEN DefaultMaxParallel ELSE cfgMaxParallelSegs

\* exporter.NewExporter(cfg, logger): sql.Open and the ping; its error is
\* returned as "failed to create exporter".
NewExporter ==
    /\ ppc = "start"
    /\ ppc' = IF env.dbOk THEN "new_uploader" ELSE "failed"
    /\ UNCHANGED <<cfgSegments, call, cfgBatchSize, cfgMaxParallelSegs, env, table,
                   writes, tx, s3up, objects, stream, worker, segments, wi, wg,
                   mu, allCSVFiles, logs>>

\* A scheduler that goes on without an uploader.
NewUploaderIgnoresError ==
    /\ ppc = "new_uploader"
    /\ ppc' = "loop"
    /\ UNCHANGED <<cfgSegments, call, cfgBatchSize, cfgMaxParallelSegs, env, table,
                   writes, tx, s3up, objects, stream, worker, segments, wi, wg,
                   mu, allCSVFiles, logs>>

\* s3.NewUploader(cfg, logger): LoadDefaultConfig; its error is returned as
\* "failed to create S3 uploader".
NewUploader ==
    /\ ppc = "new_uploader"
    /\ ppc' = IF env.awsOk THEN "loop" ELSE "failed"
    /\ UNCHANGED <<cfgSegments, call, cfgBatchSize, cfgMaxParallelSegs, env, table,
                   writes, tx, s3up, objects, stream, worker, segments, wi, wg,
                   mu, allCSVFiles, logs>>

\* The segments of the wave that starts at i (1-based positions).
Batch(i) == (i + 1)..Min(i + maxParallel, Len(segments))

\* One round of the outer loop up to wg.Wait(): a goroutine per segment of
\* the batch.
StartWave ==
    /\ ppc = "loop"
    /\ wi < Len(segments)
    /\ worker' = [k \in Workers |->
                     IF k \in Batch(wi) THEN [worker[k] EXCEPT !.pc = "start"]
                     ELSE worker[k]]
    /\ wg' = wg + Cardinality(Batch(wi))
    /\ ppc' = "wait"
    /\ UNCHANGED <<cfgSegments, call, cfgBatchSize, cfgMaxParallelSegs, env, table,
                   writes, tx, s3up, objects, stream, segments, wi, mu,
                   allCSVFiles, logs>>

\* A scheduler that does not block on the wave.
WaitWaveNoWait ==
    /\ ppc = "wait"
    /\ wi' = wi + maxParallel
    /\ ppc' = "loop"
    /\ UNCHANGED <<cfgSegments, call, cfgBatchSize, cfgMaxParallelSegs, env, table,
                   writes, tx, s3up, objects, stream, worker, segments, wg, mu,
                   allCSVFiles, logs>>

\* A scheduler that gives up after a wave in which a segment failed.
WaitWaveStopsOnFailure ==
    /\ ppc = "wait"
    /\ wg = 0
    /\ wi' = IF \E l \in logs : l.msg = "Failed to process segment"
             THEN Len(segments) ELSE wi + maxParallel
    /\ ppc' = "loop"
    /\ UNCHANGED <<cfgSegments, call, cfgBatchSize, cfgMaxParallelSegs, env, table,
                   writes, tx, s3up, objects, stream, worker, segments, wg, mu,
                   allCSVFiles, logs>>

\* wg.Wait() returns and the loop steps: i += maxParallel.
WaitWave ==
    /\ ppc = "wait"
    /\ wg = 0
    /\ wi' = wi + maxParallel
    /\ ppc' = "loop"
    /\ UNCHANGED <<cfgSegments, call, cfgBatchSize, cfgMaxParallelSegs, env, table,
                   writes, tx, s3up, objects, stream, worker, segments, wg, mu,
                   allCSVFiles, logs>>

\* A scheduler that returns an error when a segment failed.
ReturnFilesErrorOnFailure ==
    /\ ppc = "loop"
    /\ wi >= Len(segments)
    /\ ppc' = IF \E l \in logs : l.msg = "Failed to process segment"
              THEN "failed" ELSE "done"
    /\ UNCHANGED <<cfgSegments, call, cfgBatchSize, cfgMaxParallelSegs, env, table,
                   writes, tx, s3up, objects, stream, worker, segments, wi, wg,
                   mu, allCSVFiles, logs>>

\* The loop ends: return allCSVFiles, nil.
ReturnFiles ==
    /\ ppc = "loop"
    /\ wi >= Len(segments)
    /\ ppc' = "done"
    /\ UNCHANGED <<cfgSegments, call, cfgBatchSize, cfgMaxParallelSegs, env, table,
                   writes, tx, s3up, objects, stream, worker, segments, wi, wg,
                   mu, allCSVFiles, logs>>

\* ProcessSegment after ExportSegment returned, and the goroutine's test of
\* its error.
ProcessSegment(i) ==
    /\ worker[i].pc = "returned"
    /\ LET w == worker[i]
       IN  IF w.ret.err # ""
           THEN /\ logs' = logs \cup {[msg |-> "Failed to process segment",
                                       seg |-> segments[i].Index]}
                /\ worker' = [worker EXCEPT ![i].pc = "done"]
                /\ wg' = wg - 1
           ELSE /\ logs' = IF w.ret.file = NoFile
                           THEN logs \cup {[msg |-> "Segment has no data",
                                            seg |-> segments[i].Index]}
                           ELSE logs
                /\ worker' = [worker EXCEPT
                      ![i].csvFiles = IF w.ret.file = NoFile THEN <<>>
                                      ELSE <<w.ret.file>>,
                      ![i].pc = "lock"]
                /\ UNCHANGED wg
    /\ UNCHANGED <<cfgSegments, call, cfgBatchSize, cfgMaxParallelSegs, env, table,
                   writes, tx, s3up, objects, stream, ppc, segments, wi, mu,
                   allCSVFiles>>

\* An append that takes no lock.
LockFree(i) ==
    /\ worker[i].pc = "lock"
    /\ mu' = i
    /\ worker' = [worker EXCEPT ![i].pc = "append"]
    /\ UNCHANGED <<cfgSegments, call, cfgBatchSize, cfgMaxParallelSegs, env, table,
                   writes, tx, s3up, objects, stream, ppc, segments, wi, wg,
                   allCSVFiles, logs>>

\* mu.Lock()
Lock(i) ==
    /\ worker[i].pc = "lock"
    /\ mu = 0
    /\ mu' = i
    /\ worker' = [worker EXCEPT ![i].pc = "append"]
    /\ UNCHANGED <<cfgSegments, call, cfgBatchSize, cfgMaxParallelSegs, env, table,
                   writes, tx, s3up, objects, stream, ppc, segments, wi, wg,
                   allCSVFiles, logs>>

\* append(allCSVFiles, csvFiles...): the slice is read and extended.
AppendFiles(i) ==
    /\ worker[i].pc = "append"
    /\ worker' = [worker EXCEPT ![i].tmp = allCSVFiles \o worker[i].csvFiles,
                                ![i].pc = "store"]
    /\ UNCHANGED <<cfgSegments, call, cfgBatchSize, cfgMaxParallelSegs, env, table,
                   writes, tx, s3up, objects, stream, ppc, segments, wi, wg, mu,
                   allCSVFiles, logs>>

\* allCSVFiles = ...: the extended slice is stored.
StoreFiles(i) ==
    /\ worker[i].pc = "store"
    /\ allCSVFiles' = worker[i].tmp
    /\ worker' = [worker EXCEPT ![i].tmp = <<>>, ![i].pc = "unlock"]
    /\ UNCHANGED <<cfgSegments, call, cfgBatchSize, cfgMaxParallelSegs, env, table,
                   writes, tx, s3up, objects, stream, ppc, segments, wi, wg, mu,
                   logs>>

\* A goroutine that ends without wg.Done().
UnlockWithoutDone(i) ==
    /\ worker[i].pc = "unlock"
    /\ mu' = 0
    /\ worker' = [worker EXCEPT ![i].pc = "done"]
    /\ UNCHANGED <<cfgSegments, call, cfgBatchSize, cfgMaxParallelSegs, env, table,
                   writes, tx, s3up, objects, stream, ppc, segments, wi, wg,
                   allCSVFiles, logs>>

\* mu.Unlock(), and wg.Done() as the goroutine ends.
Unlock(i) ==
    /\ worker[i].pc = "unlock"
    /\ mu' = 0
    /\ worker' = [worker EXCEPT ![i].pc = "done"]
    /\ wg' = wg - 1
    /\ UNCHANGED <<cfgSegments, call, cfgBatchSize, cfgMaxParallelSegs, env, table,
                   writes, tx, s3up, objects, stream, ppc, segments, wi,
                   allCSVFiles, logs>>

\* main's summary of the list ProcessSegments returned: the total of the
\* RowCount fields and the number of files.
RECURSIVE TotalRows(_)
TotalRows(csvFiles) ==
    IF csvFiles = <<>> THEN 0
    ELSE Head(csvFiles).RowCount + TotalRows(Tail(csvFiles))

Summary(csvFiles) ==
    [totalRows |-> TotalRows(csvFiles), totalCSVFiles |-> Len(csvFiles)]

----------------------------------------------------------------------------
(* Spec: one run of ProcessSegments, one segment at a time, with           *)
(* concurrent writers                                                      *)

TenantRows(hs) == {Row(TenantID, h, <<1>>) : h \in hs}
OtherRows == {Row(OtherTenant, <<0, 0, 10>>, NULL)}

\* The configurations and tables a run starts from.
SegmentCounts == {1, 2}
BatchSizes == {1, 2}

InitialTables ==
    {OtherRows,
     OtherRows \cup TenantRows({<<0, 0, 10>>, <<3, 15, 11>>, <<4, 0, 12>>,
                                <<8, 0, 13>>, <<15, 15, 10>>})}

Init ==
    /\ cfgSegments \in SegmentCounts
    /\ cfgBatchSize \in BatchSizes
    /\ cfgMaxParallelSegs = 1
    /\ env \in Environments
    /\ table \in InitialTables
    /\ call = [op |-> "none"]
    /\ Idle(cfgSegments)

\* The steps of ProcessSegments and of its goroutines.
NextJob ==
    \/ NewExporter
    \/ NewUploader
    \/ StartWave
    \/ WaitWave
    \/ ReturnFiles
    \/ \E i \in Workers : NewMultipartUploadStream(i)
    \/ \E i \in Workers : BeginTx(i)
    \/ \E i \in Workers : Query(i)
    \/ \E i \in Workers : UploadPart(i)
    \/ \E i \in Workers : Commit(i)
    \/ \E i \in Workers : NoData(i)
    \/ \E i \in Workers : Complete(i)
    \/ \E i \in Workers : ProcessSegment(i)
    \/ \E i \in Workers : Lock(i)
    \/ \E i \in Workers : AppendFiles(i)
    \/ \E i \in Workers : StoreFiles(i)
    \/ \E i \in Workers : Unlock(i)

Next ==
    \/ WriterInsert
    \/ WriterDelete
    \/ WriterUpdate
    \/ NewExporter
    \/ NewUploader
    \/ StartWave
    \/ WaitWave
    \/ ReturnFiles
    \/ \E i \in Workers : NewMultipartUploadStream(i)
    \/ \E i \in Workers : BeginTx(i)
    \/ \E i \in Workers : Query(i)
    \/ \E i \in Workers : UploadPart(i)
    \/ \E i \in Workers : Commit(i)
    \/ \E i \in Workers : NoData(i)
    \/ \E i \in Workers : Complete(i)
    \/ \E i \in Workers : ProcessSegment(i)
    \/ \E i \in Workers : Lock(i)
    \/ \E i \in Workers : AppendFiles(i)
    \/ \E i \in Workers : StoreFiles(i)
    \/ \E i \in Workers : Unlock(i)

Spec == Init /\ [][Next]_vars

----------------------------------------------------------------------------
(* SpecWaves: one run of ProcessSegments over a fixed table, the segments  *)
(* of a wave running concurrently                                          *)

\* An empty segment list (0) is what ProcessSegments is given when it is
\* called directly, as its tests do.
WaveSegmentCounts == {0, 2, 3}
ParallelSettings == {0 - 1, 0, 2}

WaveTable ==
    OtherRows \cup TenantRows({<<0, 0, 10>>, <<3, 15, 11>>, <<8, 0, 13>>})

InitWaves ==
    /\ cfgSegments \in WaveSegmentCounts
    /\ cfgBatchSize \in BatchSizes
    /\ cfgMaxParallelSegs \in ParallelSettings
    /\ env \in Environments
    /\ table = WaveTable
    /\ call = [op |-> "none"]
    /\ Idle(cfgSegments)

SpecWaves == InitWaves /\ [][NextJob]_vars

\* A run of two waves of one segment with concurrent writers, and with the
\* progress the Go runtime gives the job (a goroutine that can take a step
\* eventually takes one, and every call to the database and to the store
\* returns); the writers are under no obligation to write.
InitFair ==
    /\ cfgSegments = 2
    /\ cfgBatchSize = 1
    /\ cfgMaxParallelSegs = 1
    /\ env \in Environments
    /\ table \in InitialTables
    /\ call = [op |-> "none"]
    /\ Idle(cfgSegments)

SpecFair == InitFair /\ [][Next]_vars /\ WF_vars(NextJob)

\* A run of two waves with the progress the Go runtime gives: a goroutine that can
\* take a step eventually takes one, and every call to the database and to
\* the store returns.
InitWavesFair ==
    /\ cfgSegments = 3
    /\ cfgBatchSize = 2
    /\ cfgMaxParallelSegs = 2
    /\ env \in Environments
    /\ table = WaveTable
    /\ call = [op |-> "none"]
    /\ Idle(cfgSegments)

SpecWavesFair == InitWavesFair /\ [][NextJob]_vars /\ WF_vars(NextJob)

----------------------------------------------------------------------------
(* SpecConfig: LoadConfig (internal/config) for the three integer options  *)
(* of the run, each with a command-line flag, an environment variable and  *)
(* a key of the YAML file                                                  *)

\* The defaults of the flags -segments, -max-parallel-segments, -batch-size,
\* which are also the values set when the option is still 0 at the end.
DefaultSegments == 16
DefaultMaxParallelSegs == 8
DefaultBatchSize == 100000

\* What the command line, the environment and the YAML file hold for one
\* option: the flag given or not, the variable set (to a number) or not,
\* the key's value (0 when the key or the file is missing).
Flags == {[given |-> FALSE, value |-> 0], [given |-> TRUE, value |-> 2]}
EnvVars == {[set |-> FALSE, value |-> 0], [set |-> TRUE, value |-> 3]}
YamlValues == {0, 5}
Sources == [flag : Flags, env : EnvVars, yaml : YamlValues]

\* flag.Int(name, deflt, ...) after flag.Parse(): the default unless given.
FlagInt(flag, deflt) == IF flag.given THEN flag.value ELSE deflt

\* loadFromYAML, loadFromEnv, the override by the flag and the final
\* default, for one integer option whose current value is cur.
loadFromYAML(cur, yaml) == IF yaml > 0 THEN yaml ELSE cur
loadFromEnv(cur, envVar) == IF envVar.set THEN envVar.value ELSE cur
OverrideWithFlag(cur, flagValue) == IF flagValue > 0 THEN flagValue ELSE cur
SetDefault(cur, deflt) == IF cur = 0 THEN deflt ELSE cur

LoadInt(src, deflt) ==
    SetDefault(
        OverrideWithFlag(loadFromEnv(loadFromYAML(0, src.yaml), src.env),
                         FlagInt(src.flag, deflt)),
        deflt)

InitConfig ==
    /\ cfgSegments = 0
    /\ cfgBatchSize = 0
    /\ cfgMaxParallelSegs = 0
    /\ env = Reachable
    /\ table = {}
    /\ \E a, b, c \in Sources :
          call = [op |-> "none", segments |-> a, maxParallelSegs |-> b,
                  batchSize |-> c]
    /\ segments = <<>>
    /\ IdleJob(0)

LoadConfig ==
    /\ call.op = "none"
    /\ call' = [call EXCEPT !.op = "LoadConfig"]
    /\ cfgSegments' = LoadInt(call.segments, DefaultSegments)
    /\ cfgMaxParallelSegs' = LoadInt(call.maxParallelSegs, DefaultMaxParallelSegs)
    /\ cfgBatchSize' = LoadInt(call.batchSize, DefaultBatchSize)
    /\ UNCHANGED <<env, table, writes, tx, s3up, objects, stream, worker, ppc,
                   segments, wi, wg, mu, allCSVFiles, logs>>

SpecConfig == InitConfig /\ [][LoadConfig]_vars

----------------------------------------------------------------------------
(* SpecStream: one MultipartUploadStream and a caller that calls           *)
(* UploadPart a few times, with empty and non-empty data, also after a     *)
(* call failed                                                             *)

MaxCalls == 3
PartData == {<<>>, <<Header>>, <<Record(Row(TenantID, <<0, 0, 10>>, <<1>>))>>}

InitStream ==
    /\ cfgSegments = 1
    /\ cfgBatchSize = 1
    /\ cfgMaxParallelSegs = 1
    /\ env = Reachable
    /\ table = {}
    /\ call = [op |-> "none", n |-> 0]
    /\ segments = SegmentHashSpace(cfgSegments).segs
    /\ writes = 0
    /\ tx = <<NoTx>>
    /\ s3up = <<NoUpload>>
    /\ stream = <<NoStream>>
    /\ worker = <<[IdleWorker EXCEPT !.pc = "start"]>>
    /\ objects = {}
    /\ ppc = "wait"
    /\ wi = 0
    /\ wg = 1
    /\ mu = 0
    /\ allCSVFiles = <<>>
    /\ logs = {}

\* The caller passes `data` to UploadPart of the stream it created; the
\* previous call, if any, has returned.
CallUploadPart ==
    /\ stream[1].created
    /\ worker[1].pc \in {"begin_tx", "commit", "returned"}
    /\ call.n < MaxCalls
    /\ \E data \in PartData :
          /\ call' = [op |-> "UploadPart", n |-> call.n + 1]
          /\ worker' = [worker EXCEPT ![1].pc = "upload", ![1].csvBytes = data,
                                      ![1].attempt = 1, ![1].slept = 0]
    /\ UNCHANGED <<cfgSegments, cfgBatchSize, cfgMaxParallelSegs, env, table,
                   writes, tx, s3up, objects, stream, ppc, segments, wi, wg, mu,
                   allCSVFiles, logs>>

\* The caller calls Complete on the stream, after any number of UploadPart
\* calls that returned nil.
CallComplete ==
    /\ stream[1].created
    /\ worker[1].pc \in {"begin_tx", "commit"}
    /\ call' = [op |-> "Complete", n |-> call.n]
    /\ worker' = [worker EXCEPT ![1].pc = "complete"]
    /\ UNCHANGED <<cfgSegments, cfgBatchSize, cfgMaxParallelSegs, env, table,
                   writes, tx, s3up, objects, stream, ppc, segments, wi, wg, mu,
                   allCSVFiles, logs>>

NextStream ==
    \/ NewMultipartUploadStream(1)
    \/ CallUploadPart
    \/ UploadPart(1)
    \/ CallComplete
    \/ Complete(1)

SpecStream == InitStream /\ [][NextStream]_vars

----------------------------------------------------------------------------
(* SpecLoadData: ExecuteLoadDataSQL (internal/sqlgen): the creation of the *)
(* Aurora client, the validation of the connection and the execution of    *)
(* the statements, held in `call`                                          *)

\* The number of pings of the validation loop.
PingAttempts == 3

\* The statement lists tried, by their length.
StatementCounts == 0..3

\* What ExecContext returns for a statement: nil, a duplicate-entry error or
\* another error.
ExecOutcomes == {"ok", "duplicate", "error"}

ConnectionError == "failed to connect to Aurora MySQL after retries"

InitLoadData ==
    /\ cfgSegments = 0
    /\ cfgBatchSize = 0
    /\ cfgMaxParallelSegs = 0
    /\ env = Reachable
    /\ table = {}
    /\ \E n \in StatementCounts, secretOk, clientOk \in BOOLEAN :
          call = [op |-> "ExecuteLoadDataSQL", pc |-> "start", nstmts |-> n,
                  secretOk |-> secretOk, clientOk |-> clientOk,
                  err |-> "", lastErr |-> "", attempt |-> 0, delay |-> 0,
                  pings |-> <<>>, i |-> 0, successCount |-> 0,
                  failureCount |-> 0, ret |-> ""]
    /\ segments = <<>>
    /\ IdleJob(0)

\* The empty list, ResolveAWSDBPassword and NewSQLClient, up to the loop;
\* `err` is the function's variable, nil once the client is created.
CreateAuroraClient ==
    /\ call.pc = "start"
    /\ call' =
          IF call.nstmts = 0
          THEN [call EXCEPT !.pc = "returned",
                            !.ret = "no SQL statements to execute"]
          ELSE IF ~call.secretOk
          THEN [call EXCEPT !.pc = "returned", !.err = "secrets manager",
                            !.ret = "failed to get AWS password from Secrets Manager"]
          ELSE IF ~call.clientOk
          THEN [call EXCEPT !.pc = "returned", !.err = "client",
                            !.ret = "failed to create Aurora MySQL client"]
          ELSE [call EXCEPT !.pc = "ping", !.err = "", !.lastErr = "",
                            !.delay = 1, !.attempt = 1]
    /\ NotCalled

\* One iteration of the validation loop. The error of Ping is declared in
\* the if statement (if err := auroraClient.Ping(); err == nil), so the
\* assignment lastErr = err that follows it reads the function's err.
Ping ==
    /\ call.pc = "ping"
    /\ \E ok \in BOOLEAN :
          call' =
            IF ok
            THEN [call EXCEPT !.pings = Append(@, TRUE), !.pc = "validated"]
            ELSE [call EXCEPT !.pings = Append(@, FALSE),
                              !.lastErr = call.err,
                              !.delay = IF call.attempt < PingAttempts
                                        THEN 2 * @ ELSE @,
                              !.attempt = @ + 1,
                              !.pc = IF call.attempt + 1 <= PingAttempts
                                     THEN "ping" ELSE "validated"]
    /\ NotCalled

\* if lastErr != nil { return the connection error }
Validated ==
    /\ call.pc = "validated"
    /\ call' = IF call.lastErr # ""
               THEN [call EXCEPT !.pc = "returned", !.ret = ConnectionError]
               ELSE [call EXCEPT !.pc = "exec", !.i = 0]
    /\ NotCalled

\* One statement: a duplicate-entry error counts as success, any other
\* error as a failure, and the loop continues.
ExecStatement ==
    /\ call.pc = "exec"
    /\ call.i < call.nstmts
    /\ \E outcome \in ExecOutcomes :
          call' = [call EXCEPT !.i = @ + 1,
                               !.successCount =
                                   IF outcome = "error" THEN @ ELSE @ + 1,
                               !.failureCount =
                                   IF outcome = "error" THEN @ + 1 ELSE @]
    /\ NotCalled

\* The summary and the return after the last statement.
ReturnSummary ==
    /\ call.pc = "exec"
    /\ call.i >= call.nstmts
    /\ call' = [call EXCEPT !.pc = "returned",
                            !.ret = IF call.failureCount > 0
                                    THEN "some SQL statements failed" ELSE ""]
    /\ NotCalled

NextLoadData ==
    \/ CreateAuroraClient
    \/ Ping
    \/ Validated
    \/ ExecStatement
    \/ ReturnSummary

SpecLoadData == InitLoadData /\ [][NextLoadData]_vars

----------------------------------------------------------------------------
(* SpecRerun: ExportSegment run twice for the same segment, one run after  *)
(* the other, over a table nobody writes to                                *)

InitRerun ==
    /\ cfgSegments \in SegmentCounts
    /\ cfgBatchSize \in BatchSizes
    /\ cfgMaxParallelSegs = 1
    /\ env = Reachable
    /\ table \in InitialTables
    /\ call = [op |-> "none"]
    /\ \E k \in 1..cfgSegments :
          segments = <<SegmentHashSpace(cfgSegments).segs[k],
                       SegmentHashSpace(cfgSegments).segs[k]>>
    /\ IdleJob(2)

SpecRerun == InitRerun /\ [][NextJob]_vars

----------------------------------------------------------------------------
(* Claims about the partition *)

\* The numeric range [lo, hi) a segment's boundaries denote.
Lo(seg) == HexToInt(seg.StartHex)
Hi(seg) == HexToInt(seg.EndHex)

\* C1: for every n in 1..256, SegmentHashSpace(n) returns n segments with
\* Index 0..n-1 in order, starting at "00", ending at the sentinel "100",
\* each non-empty, and each EndHex equal to the next StartHex.
C1_PartitionContiguous ==
    (call.op = "SegmentHashSpace" /\ call.n \in 1..HashSpace) =>
        LET segs == call.ret.segs
        IN  /\ ~call.ret.err
            /\ Len(segs) = call.n
            /\ \A i \in 1..Len(segs) : segs[i].Index = i - 1
            /\ segs[1].StartHex = <<0, 0>>
            /\ segs[Len(segs)].EndHex = Sentinel
            /\ \A i \in 1..Len(segs) : Lo(segs[i]) < Hi(segs[i])
            /\ \A i \in 1..(Len(segs) - 1) : segs[i].EndHex = segs[i + 1].StartHex

C1_Witness ==
    /\ call.op = "SegmentHashSpace"
    /\ call.n = 3
    /\ Len(call.ret.segs) = 3
    /\ call.ret.segs[2].StartHex = <<5, 6>>
    /\ call.ret.segs[3].EndHex = Sentinel

\* C2: for every n in 1..256 and every key of at least two hex characters,
\* HashInSegment is true for exactly the one segment whose numeric range
\* contains the value of the key's first two characters; a shorter key is
\* in no segment.
C2_HashInExactlyOneSegment ==
    call.op = "HashInSegment" =>
        IF Len(call.hash) < 2 THEN call.ret = {}
        ELSE LET v == HexToInt(SubSeq(call.hash, 1, 2))
             IN  /\ Cardinality(call.ret) = 1
                 /\ call.ret = {i \in 1..Len(segments) :
                                   Lo(segments[i]) <= v /\ v < Hi(segments[i])}

\* C3: for every n in 1..256, a row of the tenant whose key is a full-length
\* hex string is selected by the filter of exactly one segment, the one
\* whose numeric range contains its prefix; the last segment selects the
\* keys that begin with "ff".
C3_RowInExactlyOneSegment ==
    (call.op = "querySegmentInTx" /\ Len(call.hash) > 2) =>
        LET v == HexToInt(SubSeq(call.hash, 1, 2))
        IN  /\ Cardinality(call.ret) = 1
            /\ call.ret = {i \in 1..Len(segments) :
                              Lo(segments[i]) <= v /\ v < Hi(segments[i])}

----------------------------------------------------------------------------
(* Claims about ExportSegment *)

Ceil(n, k) == (n + k - 1) \div k

\* The rows of segment i in the snapshot of its transaction: those the
\* reader's filter selects.
Matching(i) == {r \in tx[i].snap : HashCondition(r, segments[i], <<>>)}

\* ExportSegment of segment i returned without error.
ReturnedOK(i) == worker[i].ret.returned /\ worker[i].ret.err = ""

\* The data of the parts the stream of segment i uploaded, in upload order.
Batches(i) == [k \in 1..Len(stream[i].parts) |-> stream[i].parts[k].ETag]

RECURSIVE Flatten(_)
Flatten(seqs) == IF seqs = <<>> THEN <<>> ELSE Head(seqs) \o Flatten(Tail(seqs))

IsRowRecord(rec) == rec # Header
RowRecords(content) == SelectSeq(content, IsRowRecord)

NoDuplicates(seq) ==
    \A a, b \in 1..Len(seq) : a # b => seq[a] # seq[b]

\* C4: a segment whose snapshot holds N >= 1 matching rows, exported with
\* page size k and ceil(N/k) within the ceiling, is uploaded as exactly
\* ceil(N/k) non-empty parts, RowCount is N, and no row is in two batches.
C4_PartsAndRowCount ==
    \A i \in Workers :
        LET N == Cardinality(Matching(i))
            k == cfgBatchSize
        IN  (ReturnedOK(i) /\ tx[i].hasSnap /\ N >= 1 /\ Ceil(N, k) <= maxBatches) =>
                /\ worker[i].ret.file # NoFile
                /\ worker[i].ret.file.RowCount = N
                /\ Len(stream[i].parts) = Ceil(N, k)
                /\ \A p \in 1..Len(stream[i].parts) : Len(Batches(i)[p]) > 0
                /\ NoDuplicates(RowRecords(Flatten(Batches(i))))

C4_Witness ==
    \E i \in Workers :
        /\ ReturnedOK(i)
        /\ Cardinality(Matching(i)) = 3
        /\ cfgBatchSize = 2
        /\ Len(stream[i].parts) = 2
        /\ worker[i].ret.file.RowCount = 3

\* The hash column of the row records of a CSV text.
HashesOf(content) ==
    LET recs == RowRecords(content) IN [k \in 1..Len(recs) |-> recs[k][2]]

Ascending(hs) == \A k \in 1..(Len(hs) - 1) : StrLess(hs[k], hs[k + 1])

RowHashes(rows) == [k \in 1..Len(rows) |-> rows[k].Hash]

\* C5: within one ExportSegment run the rows come in strictly ascending key
\* order across all batches; every row of a batch read with a cursor is
\* above the cursor; the cursor of a round is the key of the last row of
\* the previous batch, so it strictly increases.
C5_AscendingAcrossBatches ==
    \A i \in Workers :
        LET w        == worker[i]
            uploaded == HashesOf(Flatten(Batches(i)))
        IN  /\ Ascending(uploaded)
            /\ w.pc = "upload" =>
                  /\ Ascending(uploaded \o RowHashes(w.rows))
                  /\ w.lastHash = w.rows[Len(w.rows)].Hash
                  /\ w.cursor # <<>> =>
                        \A k \in 1..Len(w.rows) : StrLess(w.cursor, w.rows[k].Hash)
                  /\ w.batchNum > 0 =>
                        /\ w.cursor = uploaded[Len(uploaded)]
                        /\ StrLess(w.cursor, w.lastHash)
            /\ (w.pc = "query" /\ w.batchNum > 0) =>
                  w.lastHash = uploaded[Len(uploaded)]

C5_Witness ==
    \E i \in Workers :
        /\ worker[i].pc = "upload"
        /\ worker[i].batchNum = 1
        /\ worker[i].cursor = <<3, 15, 11>>
        /\ worker[i].lastHash = <<4, 0, 12>>

Set(seq) == {seq[k] : k \in 1..Len(seq)}

\* C6: every page query of one ExportSegment run reads the snapshot of its
\* transaction: what is exported are rows of the snapshot whatever writers
\* did since, and an export the ceiling did not cut exports exactly the
\* segment's rows of the snapshot.
C6_ExportsTheSnapshot ==
    \A i \in Workers :
        LET snapshot == {Record(r) : r \in Matching(i)}
            exported == Set(RowRecords(Flatten(Batches(i))))
            N        == Cardinality(Matching(i))
        IN  /\ exported \subseteq snapshot
            /\ Set(worker[i].rows) \subseteq Matching(i)
            /\ (ReturnedOK(i) /\ tx[i].hasSnap /\ Ceil(N, cfgBatchSize) <= maxBatches)
                   => exported = snapshot

\* A write after the snapshot changed the segment's rows, and the export,
\* of two pages, returned the rows of the snapshot.
C6_Witness ==
    \E i \in Workers :
        /\ ReturnedOK(i)
        /\ writes > 0
        /\ Len(stream[i].parts) = 2
        /\ {r \in table : HashCondition(r, segments[i], <<>>)} # Matching(i)
        /\ Set(RowRecords(Flatten(Batches(i)))) = {Record(r) : r \in Matching(i)}

\* The rows sequential cursor pagination of a segment returns over a
\* snapshot, page after page, in at most `rounds` pages of size k.
RECURSIVE Paginate(_, _, _, _, _)
Paginate(snap, seg, cursor, k, rounds) ==
    IF rounds = 0 THEN <<>>
    ELSE LET page == querySegmentInTx(snap, seg, cursor, k)
         IN  IF Len(page) < k THEN page
             ELSE page \o Paginate(snap, seg, page[Len(page)].Hash, k, rounds - 1)

\* The parts the store holds for a session, concatenated in ascending
\* part-number order.
RECURSIVE ConcatFrom(_, _)
ConcatFrom(parts, nums) ==
    IF nums = {} THEN <<>>
    ELSE LET least == CHOOSE n \in nums : \A o \in nums : n <= o
         IN  parts[least] \o ConcatFrom(parts, nums \ {least})

ConcatAscending(up) == ConcatFrom(up.parts, DOMAIN up.parts)

\* C7: for a completed export the uploaded parts, concatenated in
\* part-number order, are the header record followed by the records of the
\* rows cursor pagination of the segment returns, in key order; the header
\* is the first record of part 1 and occurs nowhere else.
C7_RoundTrip ==
    \A i \in Workers :
        s3up[i].state = "completed" =>
            LET rows    == Paginate(tx[i].snap, segments[i], <<>>, cfgBatchSize,
                                    maxBatches)
                content == ConcatAscending(s3up[i])
            IN  /\ content = <<Header>> \o [k \in 1..Len(rows) |-> Record(rows[k])]
                /\ Ascending(RowHashes(rows))
                /\ s3up[i].parts[1][1] = Header
                /\ \A k \in 2..Len(content) : content[k] # Header

C7_Witness ==
    \E i \in Workers :
        /\ s3up[i].state = "completed"
        /\ DOMAIN s3up[i].parts = {1, 2}
        /\ Len(ConcatAscending(s3up[i])) = 4

\* C8: whenever ExportSegment returns an error after the upload session was
\* created, Abort was invoked on the session before it returned.
C8_AbortOnEveryError ==
    \A i \in Workers :
        (worker[i].ret.returned /\ worker[i].ret.err # "" /\ stream[i].created)
            => s3up[i].aborts >= 1

\* C9: an object is visible under a segment's key only if the segment's
\* session completed, and is then the concatenation of all its uploaded
\* parts in ascending part-number order; a session that never completed is
\* not visible.
C9_VisibleOnlyWhenCompleted ==
    /\ \A o \in objects :
          \E i \in Workers :
              /\ o.key = S3Key(segments[i])
              /\ s3up[i].state = "completed"
              /\ o.content = ConcatAscending(s3up[i])
    /\ \A i \in Workers :
          s3up[i].state # "completed" =>
              ~\E o \in objects : o.key = S3Key(segments[i])

\* One session completed from two parts and is visible; another holds a
\* part, never completed, and is not.
C9_Witness ==
    \E i, j \in Workers :
        /\ s3up[i].state = "completed"
        /\ DOMAIN s3up[i].parts = {1, 2}
        /\ \E o \in objects : o.key = S3Key(segments[i])
        /\ s3up[j].state \in {"open", "aborted"}
        /\ DOMAIN s3up[j].parts # {}
        /\ worker[j].ret.returned
        /\ ~\E o \in objects : o.key = S3Key(segments[j])

----------------------------------------------------------------------------
(* Claims about ProcessSegments *)

UploadFailed == "failed to upload batch as multipart part"

SameWave(i, j) == (i - 1) \div maxParallel = (j - 1) \div maxParallel

InResults(i) ==
    \E k \in 1..Len(allCSVFiles) : allCSVFiles[k].Segment = segments[i]

\* C10: when UploadPart of one segment fails after 5 attempts, the segment
\* is not in the result list, Abort was invoked on its session and no
\* object is visible under its key, and every segment of the same wave
\* whose own export succeeded with rows is completed and in the result list.
C10_UploadFailureIsolated ==
    ppc = "done" =>
        \A i \in Workers :
            worker[i].ret.err = UploadFailed =>
                /\ worker[i].attempt = maxS3Retries
                /\ ~InResults(i)
                /\ s3up[i].aborts >= 1
                /\ ~\E o \in objects : o.key = S3Key(segments[i])
                /\ \A j \in Workers :
                      (SameWave(i, j) /\ ReturnedOK(j) /\ worker[j].ret.file # NoFile)
                          => /\ InResults(j)
                             /\ s3up[j].state = "completed"
                             /\ \E o \in objects : o.key = S3Key(segments[j])

C10_Witness ==
    /\ ppc = "done"
    /\ \E i, j \in Workers :
          /\ i # j
          /\ SameWave(i, j)
          /\ worker[i].ret.err = UploadFailed
          /\ ~InResults(i)
          /\ InResults(j)
          /\ s3up[j].state = "completed"

----------------------------------------------------------------------------
(* Claims about the wave scheduler *)

\* C11: once the exporter and the uploader exist, every segment of the list
\* is eventually attempted and finished whatever the others do, and it is
\* attempted once: an export starts only for a segment not yet started and
\* a started segment is never reset.
C11_EverySegmentAttemptedOnce ==
    /\ [](ppc = "loop" => <>(\A i \in Workers : worker[i].pc = "done"))
    /\ [][\A i \in Workers :
             /\ (worker'[i].pc = "start" /\ worker[i].pc # "start")
                    => worker[i].pc = "idle"
             /\ worker[i].pc # "idle" => worker'[i].pc # "idle"]_vars

C11_Witness ==
    /\ ppc = "done"
    /\ Len(segments) = 3
    /\ maxParallel = 2
    /\ worker[1].ret.err # ""
    /\ worker[2].ret.err = ""
    /\ worker[3].pc = "done"
    /\ worker[3].ret.returned

\* The segments whose export is in progress, and those ever started.
InProgress == {i \in Workers : worker[i].pc \notin {"idle", "done"}}
Started == {i \in Workers : worker[i].pc # "idle"}
MaxConcurrency == IF cfgMaxParallelSegs > 0 THEN cfgMaxParallelSegs ELSE 8

\* C12: at every moment at most maxConcurrency exports are in progress
\* (MaxParallelSegs when positive, else 8), and the waves are consecutive
\* slices of that size: the segments started so far are the list up to the
\* end of the current wave, waves begin at multiples of the size.
C12_AtMostMaxConcurrency ==
    /\ Cardinality(InProgress) <= MaxConcurrency
    /\ wi % MaxConcurrency = 0
    /\ ppc = "wait" => Started = 1..Min(wi + MaxConcurrency, Len(segments))
    /\ ppc \in {"loop", "done"} =>
          /\ Started = 1..Min(wi, Len(segments))
          /\ InProgress = {}

C12_Witness ==
    /\ ppc = "wait"
    /\ cfgMaxParallelSegs = 2
    /\ wi = 2
    /\ InProgress = {3}
    /\ Started = {1, 2, 3}

\* The wave of the segment at position i of the list (waves counted from 0).
WaveOf(i) == (i - 1) \div MaxConcurrency

\* C13: no segment of a later wave has started while a segment of an
\* earlier wave has not finished (its goroutine ended, whether it
\* succeeded, had no data or failed).
C13_WaveBarrier ==
    \A i, j \in Workers :
        (WaveOf(i) < WaveOf(j) /\ worker[j].pc # "idle") => worker[i].pc = "done"

C13_Witness ==
    /\ cfgMaxParallelSegs = 2
    /\ Len(segments) = 3
    /\ worker[3].pc = "begin_tx"
    /\ worker[1].pc = "done" /\ worker[1].ret.err # ""
    /\ worker[2].pc = "done" /\ worker[2].ret.file # NoFile

\* Segment i's export returned a file, and the entries of the result list
\* that are for segment i.
Succeeded(i) ==
    worker[i].ret.returned /\ worker[i].ret.err = "" /\ worker[i].ret.file # NoFile
EntriesFor(i) ==
    {k \in 1..Len(allCSVFiles) : allCSVFiles[k].Segment = segments[i]}

\* C14: the list ProcessSegments returns has exactly one entry, the file
\* its export returned, for each segment that succeeded with rows, and none
\* for a segment that failed or had no rows; every RowCount is positive;
\* the list is touched only by the holder of the mutex.
C14_ResultListExact ==
    /\ \A i \in Workers :
          worker[i].pc \in {"append", "store", "unlock"} => mu = i
    /\ ppc = "done" =>
          /\ \A i \in Workers :
                IF Succeeded(i)
                THEN /\ Cardinality(EntriesFor(i)) = 1
                     /\ \A k \in EntriesFor(i) :
                           allCSVFiles[k] = worker[i].ret.file
                ELSE EntriesFor(i) = {}
          /\ Len(allCSVFiles) = Cardinality({i \in Workers : Succeeded(i)})
          /\ \A k \in 1..Len(allCSVFiles) : allCSVFiles[k].RowCount > 0

C14_Witness ==
    /\ ppc = "done"
    /\ Len(segments) = 3
    /\ Len(allCSVFiles) = 2
    /\ allCSVFiles[1].Segment.Index = 1
    /\ allCSVFiles[2].Segment.Index = 0
    /\ worker[3].ret.returned /\ worker[3].ret.file = NoFile

----------------------------------------------------------------------------
(* Claims about segments without rows, keys and job failure *)

\* The snapshot of segment i's transaction holds no row of the segment.
ZeroRows(i) == tx[i].hasSnap /\ Matching(i) = {}

\* C15: for a segment with zero matching rows, Complete is never called and
\* no object becomes visible under its key; ExportSegment returns an error
\* only when the query or the commit failed, and otherwise returns no file
\* and no error after Abort was invoked; the scheduler then logs the
\* segment as having no data, not as failed, and adds nothing to the list.
C15_ZeroRowsIsNoData ==
    \A i \in Workers :
        ZeroRows(i) =>
            /\ worker[i].pc # "complete"
            /\ s3up[i].completes = 0
            /\ ~\E o \in objects : o.key = S3Key(segments[i])
            /\ worker[i].ret.returned =>
                  worker[i].ret.err \in {"", "failed to query segment",
                                         "failed to commit transaction"}
            /\ ReturnedOK(i) =>
                  /\ worker[i].ret.file = NoFile
                  /\ s3up[i].aborts >= 1
                  /\ s3up[i].state # "completed"
            /\ (ReturnedOK(i) /\ worker[i].pc # "returned") =>
                  /\ [msg |-> "Segment has no data", seg |-> segments[i].Index]
                         \in logs
                  /\ [msg |-> "Failed to process segment",
                      seg |-> segments[i].Index] \notin logs
                  /\ worker[i].csvFiles = <<>>
                  /\ EntriesFor(i) = {}

C15_Witness ==
    /\ ppc = "done"
    /\ Len(segments) = 1
    /\ ZeroRows(1)
    /\ ReturnedOK(1)
    /\ s3up[1].state = "aborted"
    /\ allCSVFiles = <<>>

\* C16: SegmentHashSpace(n) returns an error and no segments for every
\* n <= 0 and every n > 256.
C16_InvalidCountRejected ==
    (call.op = "SegmentHashSpace" /\ (call.n <= 0 \/ call.n > 256)) =>
        /\ call.ret.err
        /\ call.ret.segs = <<>>

C16_Witness ==
    /\ call.op = "SegmentHashSpace"
    /\ call.n = 257
    /\ call.ret.err

\* The key of segment i with the file name beginning with the tenant, and
\* the key with the file name beginning with the table.
KeyTenantFileName(i) ==
    <<S3Prefix, "/tenant-">> \o Text(Decimal(TenantID))
        \o <<"/", TableName, "/", "tenant-">> \o Text(Decimal(TenantID))
        \o <<".", TableName, ".hash-">> \o Text(segments[i].StartHex)
        \o <<"-">> \o Text(segments[i].EndHex) \o <<".csv">>
KeyTableFileName(i) ==
    <<S3Prefix, "/tenant-">> \o Text(Decimal(TenantID))
        \o <<"/", TableName, "/", TableName, ".hash-">>
        \o Text(segments[i].StartHex)
        \o <<"-">> \o Text(segments[i].EndHex) \o <<".csv">>

\* C17 as stated: the key ExportSegment opens its sink with is
\* {prefix}/tenant-{tenantId}/{table}/{table}.hash-{startKey}-{endKey}.csv.
C17_KeyAsStated ==
    \A i \in Workers :
        stream[i].created =>
            stream[i].key = KeyTableFileName(i) /\ s3up[i].key = KeyTableFileName(i)

\* C17 amended: the key ExportSegment opens its sink with is
\* {prefix}/tenant-{tenantId}/{table}/tenant-{tenantId}.{table}.hash-{startKey}-{endKey}.csv:
\* the file name begins with the tenant.
C17_KeyOfSink ==
    \A i \in Workers :
        stream[i].created =>
            stream[i].key = KeyTenantFileName(i) /\ s3up[i].key = KeyTenantFileName(i)

C17_Witness ==
    /\ Len(segments) = 2
    /\ stream[2].created
    /\ stream[2].key =
          <<"prefix", "/tenant-", "7", "/", "fis_aggr", "/", "tenant-", "7", ".",
            "fis_aggr", ".hash-", "8", "0", "-", "1", "0", "0", ".csv">>

\* C18: the key is <prefix>/tenant-<T>/<table>/tenant-<T>.<table>.hash-<StartHex>-<EndHex>.csv
\* (test-prefix/tenant-999999/fis_aggr/tenant-999999.fis_aggr.hash-00-40.csv
\* for prefix test-prefix, tenant 999999, table fis_aggr, segment 00-40),
\* and the key in the returned CSVFile is the key the upload stream was
\* created with.
C18_ReturnedKeyIsStreamKey ==
    /\ S3KeyOf("test-prefix", 999999, "fis_aggr", Segment(0, <<0, 0>>, <<4, 0>>))
          = <<"test-prefix", "/tenant-", "9", "9", "9", "9", "9", "9", "/",
              "fis_aggr", "/", "tenant-", "9", "9", "9", "9", "9", "9", ".",
              "fis_aggr", ".hash-", "0", "0", "-", "4", "0", ".csv">>
    /\ \A i \in Workers :
          Succeeded(i) =>
              /\ worker[i].ret.file.S3Key = stream[i].key
              /\ worker[i].ret.file.S3Key = s3up[i].key
              /\ worker[i].ret.file.S3Key = KeyTenantFileName(i)
              /\ worker[i].ret.file.Segment = segments[i]

C18_Witness ==
    /\ Len(segments) = 1
    /\ Succeeded(1)
    /\ worker[1].ret.file.S3Key =
          <<"prefix", "/tenant-", "7", "/", "fis_aggr", "/", "tenant-", "7", ".",
            "fis_aggr", ".hash-", "0", "0", "-", "1", "0", "0", ".csv">>
    /\ \E o \in objects : o.key = worker[1].ret.file.S3Key

\* The exporter and the uploader can be created.
Created == env.dbOk /\ env.awsOk

\* C19: when the exporter and the uploader were created, ProcessSegments
\* never returns an error whatever the segments' outcomes, it does return,
\* and when every segment failed it returns the empty list.
C19_SegmentFailureNeverJobFailure ==
    /\ [](Created => ppc # "failed")
    /\ (Created => <>(ppc = "done"))
    /\ []((ppc = "done" /\ \A i \in Workers : worker[i].ret.err # "")
             => allCSVFiles = <<>>)

C19_Witness ==
    /\ ppc = "done"
    /\ Len(segments) = 3
    /\ \A i \in Workers : worker[i].ret.err # ""
    /\ allCSVFiles = <<>>

\* C20: when the database cannot be opened or pinged, or the uploader cannot
\* be created, ProcessSegments returns an error (the only position it can
\* be at beyond the two creations), no goroutine is ever started and no
\* session is opened, and the uploader is not created once the exporter
\* failed; the same holds for an empty segment list.
C20_JobFailsBeforeAnyExport ==
    ~Created =>
        /\ ppc \in {"start", "new_uploader", "failed"}
        /\ ~env.dbOk => ppc # "new_uploader"
        /\ \A i \in Workers : worker[i].pc = "idle" /\ ~stream[i].created
        /\ wg = 0
        /\ allCSVFiles = <<>>
        /\ objects = {}

C20_Witness ==
    /\ Len(segments) = 0
    /\ env.dbOk /\ ~env.awsOk
    /\ ppc = "failed"

----------------------------------------------------------------------------
(* Claims about reporting, re-export and the transaction *)

\* Segment i failed; segment i had no data; what the value ProcessSegments
\* returns to its caller holds about segment i.
Failed(i) == worker[i].ret.returned /\ worker[i].ret.err # ""
HadNoData(i) == ReturnedOK(i) /\ worker[i].ret.file = NoFile
CallerView(i) == {allCSVFiles[k] : k \in EntriesFor(i)}

\* C21: at the end of a run the summary gives the total row count and the
\* number of segments that succeeded, and what is returned to the caller
\* of the scheduler tells a failed segment from a segment with no data.
C21_FailuresSurfaced ==
    ppc = "done" =>
        /\ Summary(allCSVFiles).totalCSVFiles
               = Cardinality({i \in Workers : Succeeded(i)})
        /\ \A i, j \in Workers :
               (Failed(i) /\ HadNoData(j)) => CallerView(i) # CallerView(j)

ThreeKeys ==
    /\ segments[1].Index = 0
    /\ segments[1].StartHex = <<0, 0>> /\ segments[1].EndHex = <<4, 0>>
    /\ segments[2].Index = 1
    /\ segments[2].StartHex = <<4, 0>> /\ segments[2].EndHex = <<8, 0>>
    /\ call.hash \in {<<0, 0, 10>>, <<3, 15, 10>>} => call.ret = {1}
    /\ call.hash = <<4, 0, 10>> => call.ret = {2}

\* C23 as stated: partition(16) places "00abc..." and "3fabc..." in
\* segment 0 (00-40) and "40abc..." in segment 1 (40-80).
C23_SixteenSegments ==
    (call.op = "HashInSegment" /\ cfgSegments = 16) => ThreeKeys

\* C23 amended: partition(4) places "00abc..." and "3fabc..." in segment 0
\* (00-40) and "40abc..." in segment 1 (40-80).
C23_FourSegments ==
    (call.op = "HashInSegment" /\ cfgSegments = 4) => ThreeKeys

C23_Witness ==
    /\ call.op = "HashInSegment"
    /\ cfgSegments = 4
    /\ call.hash = <<4, 0, 10>>
    /\ call.ret = {2}

\* The value the stated priority gives an option: the flag when given, else
\* the environment variable when set, else the YAML value when present,
\* else the built-in default.
Effective(src, deflt) ==
    IF src.flag.given THEN src.flag.value
    ELSE IF src.env.set THEN src.env.value
    ELSE IF src.yaml > 0 THEN src.yaml
    ELSE deflt

\* C24: the value LoadConfig gives segments, max_parallel_segments and
\* batch_size is the flag's when the flag is given, else the environment
\* variable's when set, else the YAML file's when present, else the default.
C24_ConfigPriority ==
    call.op = "LoadConfig" =>
        /\ cfgSegments = Effective(call.segments, 16)
        /\ cfgMaxParallelSegs = Effective(call.maxParallelSegs, 8)
        /\ cfgBatchSize = Effective(call.batchSize, 100000)

\* C25: once its transaction was started, ExportSegment never returns with
\* the transaction still open: it is committed or rolled back on every
\* exit path; it is committed only when pagination has ended (the loop was
\* left without error) and Complete is invoked only after the commit.
C25_TransactionAlwaysEnded ==
    \A i \in Workers :
        /\ (worker[i].ret.returned /\ tx[i].state # "none")
              => tx[i].state \in {"committed", "rolledback"}
        /\ tx[i].state = "committed"
              => worker[i].pc \notin {"begin_tx", "query", "upload", "commit"}
        /\ (worker[i].pc = "complete" \/ s3up[i].completes > 0)
              => tx[i].state = "committed"
        /\ (worker[i].ret.returned /\ worker[i].ret.err \in
                {"failed to query segment",
                 "failed to upload batch as multipart part",
                 "failed to commit transaction"})
              => tx[i].state = "rolledback"

C25_Witness ==
    /\ worker[1].ret.returned
    /\ worker[1].ret.err = "failed to upload batch as multipart part"
    /\ stream[1].partNumber = 2
    /\ tx[1].state = "rolledback"

----------------------------------------------------------------------------
(* Claims about the upload stream *)

\* C26: UploadPart on non-empty data makes an attempt numbered 1..5; an
\* attempt that succeeds records exactly one part, with the stream's part
\* number, and raises the number by 1; an attempt that fails is followed by
\* another with the same part number while fewer than 5 were made; when
\* the fifth fails the session is aborted, an error is returned and the
\* part list and the part number are unchanged.
C26_UploadPartRetries ==
    [][(worker[1].pc = "upload" /\ worker[1].csvBytes # <<>>
            /\ worker'[1] # worker[1]) =>
          /\ worker[1].attempt \in 1..5
          /\ \/ /\ worker'[1].pc \notin {"upload", "returned"}
                /\ stream'[1].parts =
                      Append(stream[1].parts,
                             [PartNumber |-> stream[1].partNumber,
                              ETag |-> worker[1].csvBytes])
                /\ stream'[1].partNumber = stream[1].partNumber + 1
             \/ /\ worker[1].attempt < 5
                /\ worker'[1].pc = "upload"
                /\ worker'[1].attempt = worker[1].attempt + 1
                /\ stream' = stream /\ s3up' = s3up
             \/ /\ worker[1].attempt = 5
                /\ worker'[1].pc = "returned"
                /\ worker'[1].ret.err # ""
                /\ s3up'[1].aborts = s3up[1].aborts + 1
                /\ s3up'[1].parts = s3up[1].parts
                /\ stream' = stream]_vars

C26_Witness ==
    /\ call.op = "UploadPart"
    /\ worker[1].pc = "returned"
    /\ worker[1].ret.err = "failed to upload batch as multipart part"
    /\ worker[1].attempt = 5
    /\ Len(stream[1].parts) = 1
    /\ stream[1].partNumber = 2

\* C27: at every moment of a sequence of UploadPart calls on one stream the
\* recorded parts carry the numbers 1..m in ascending order and the next
\* part number is m+1, where m grows by one exactly at each successful
\* upload of non-empty data; a call with empty data makes no store call and
\* changes neither the part list nor the next part number.
C27_PartNumbersConsecutive ==
    /\ [](stream[1].created =>
            /\ \A k \in 1..Len(stream[1].parts) : stream[1].parts[k].PartNumber = k
            /\ stream[1].partNumber = Len(stream[1].parts) + 1)
    /\ [][stream[1].created =>
            /\ Len(stream'[1].parts) =
                  Len(stream[1].parts)
                    + (IF /\ worker[1].pc = "upload"
                          /\ worker[1].csvBytes # <<>>
                          /\ s3up'[1].parts # s3up[1].parts
                       THEN 1 ELSE 0)
            /\ (worker[1].pc = "upload" /\ worker[1].csvBytes = <<>>) =>
                  /\ s3up' = s3up
                  /\ stream' = stream]_vars

C27_Witness ==
    /\ call.op = "UploadPart"
    /\ call.n = MaxCalls
    /\ worker[1].pc = "commit"
    /\ worker[1].csvBytes = <<>>
    /\ Len(stream[1].parts) = 1
    /\ s3up[1].aborts = 1

----------------------------------------------------------------------------
(* Claims about ExportSegment's failures and resources *)

\* C28: a failed page query is retried; a segment is not reported as failed
\* by the first query attempt it makes (the budget is 5 attempts).
C28_QueryRetried ==
    [][\A i \in DOMAIN worker :
          (/\ worker[i].pc = "query"
           /\ worker[i].batchNum = 0
           /\ ~tx[i].hasSnap) =>
             ~(/\ worker'[i].pc = "returned"
               /\ worker'[i].ret.err = "failed to query segment")]_vars

\* C29 as stated: a session exists only once the segment's first non-empty
\* batch is ready to upload (so never for a segment without rows, nor when
\* the transaction start or the first query fails).
C29_SessionCreatedLazily ==
    \A i \in Workers : s3up[i].state # "none" => worker[i].headerWritten

\* C29 amended: ExportSegment creates the session first, before the
\* transaction is started and before any query, for every segment; a
\* segment without rows and a segment whose transaction start fails have a
\* session created and an abort requested for it, and a segment whose
\* first query fails has a session created.
C29_SessionCreatedFirst ==
    \A i \in Workers :
        /\ tx[i].state # "none" => stream[i].created /\ s3up[i].state # "none"
        /\ (worker[i].ret.returned /\ worker[i].ret.err = ""
               /\ worker[i].ret.file = NoFile) =>
              /\ worker[i].totalRows = 0
              /\ stream[i].created /\ s3up[i].aborts >= 1
        /\ (worker[i].ret.returned
               /\ worker[i].ret.err = "failed to start transaction") =>
              /\ stream[i].created /\ s3up[i].aborts >= 1
        /\ (worker[i].ret.returned
               /\ worker[i].ret.err = "failed to query segment") =>
              /\ stream[i].created /\ s3up[i].state # "none"

C29_Witness ==
    \E i, j \in Workers :
        /\ worker[i].ret.returned /\ worker[i].ret.err = ""
        /\ worker[i].ret.file = NoFile
        /\ s3up[i].state = "aborted" /\ ~worker[i].headerWritten
        /\ worker[j].ret.returned
        /\ worker[j].ret.err = "failed to start transaction"
        /\ s3up[j].state = "aborted"

\* The transactions that are open, and the sessions that were created and
\* have neither been completed nor had an abort requested.
OpenTransactions == {i \in Workers : tx[i].state = "open"}
UnendedSessions ==
    {i \in Workers : s3up[i].state # "none" /\ s3up[i].completes = 0
                       /\ s3up[i].aborts = 0}

\* C30: at every moment of a ProcessSegments run, over all waves run so far,
\* the number of open transactions and the number of sessions created but
\* neither completed nor aborted are each at most maxConcurrency.
C30_ResourcesBounded ==
    /\ Cardinality(OpenTransactions) <= MaxConcurrency
    /\ Cardinality(UnendedSessions) <= MaxConcurrency

----------------------------------------------------------------------------
(* Claims about the pagination loop *)

Warned(i) ==
    [msg |-> "Segment export hit maximum batch limit", seg |-> segments[i].Index]
        \in logs

\* C31: ExportSegment makes at most maxBatches page queries per segment
\* (one per value of batchNum below the ceiling); the warning is logged
\* exactly when the loop ended by reaching the ceiling and the transaction
\* was committed; reaching the ceiling is no error, and the parts uploaded
\* so far are completed into an object whose RowCount is the number of rows
\* uploaded.
C31_CeilingWarnsAndCompletes ==
    \A i \in Workers :
        /\ worker[i].batchNum <= maxBatches
        /\ worker[i].pc = "query" => worker[i].batchNum < maxBatches
        /\ Len(stream[i].parts) <= maxBatches
        /\ Warned(i) <=> (tx[i].state = "committed" /\ worker[i].batchNum >= maxBatches)
        /\ (worker[i].ret.returned /\ worker[i].batchNum = maxBatches) =>
              /\ worker[i].ret.err \in {"", "failed to commit transaction",
                                        "failed to complete multipart upload"}
              /\ worker[i].ret.err = "" =>
                    /\ Warned(i)
                    /\ worker[i].ret.file # NoFile
                    /\ Len(stream[i].parts) = maxBatches
                    /\ worker[i].ret.file.RowCount
                          = Len(RowRecords(Flatten(Batches(i))))
                    /\ \E o \in objects :
                          /\ o.key = S3Key(segments[i])
                          /\ o.content = ConcatAscending(s3up[i])

\* The ceiling cut an export short: more rows match than were exported.
C31_Witness ==
    \E i \in Workers :
        /\ ReturnedOK(i)
        /\ worker[i].batchNum = maxBatches
        /\ Warned(i)
        /\ worker[i].ret.file.RowCount = maxBatches * cfgBatchSize
        /\ Cardinality(Matching(i)) > worker[i].ret.file.RowCount

\* C32: pagination stops at the first batch that is empty or smaller than
\* the page size (a further query is made only after a batch of exactly
\* page-size rows), and after a batch of exactly page-size rows the loop is
\* left without error only at the ceiling.
C32_StopsAtShortBatch ==
    \A i \in Workers :
        LET w == worker[i]
        IN  /\ (w.pc = "query" /\ tx[i].hasSnap) =>
                  /\ Len(w.rows) = cfgBatchSize
                  /\ w.batchNum < maxBatches
            /\ (\/ w.pc \in {"commit", "nodata", "complete"}
                \/ tx[i].state = "committed"
                \/ w.ret.err = "failed to commit transaction") =>
                  \/ Len(w.rows) < cfgBatchSize
                  \/ w.batchNum = maxBatches

C32_Witness ==
    \E i, j \in Workers :
        /\ ReturnedOK(i)
        /\ cfgBatchSize = 2
        /\ Len(stream[i].parts) = 2
        /\ Len(worker[i].rows) = 1
        /\ worker[i].batchNum = 1
        /\ worker[j].pc = "query"
        /\ worker[j].batchNum = 1
        /\ Len(worker[j].rows) = 2

----------------------------------------------------------------------------
(* Claims about the retries of the uploader *)

RECURSIVE Pow2(_)
Pow2(k) == IF k = 0 THEN 1 ELSE 2 * Pow2(k - 1)

\* C33: the wait before each retry of a failed part upload grows
\* exponentially: 1s before attempt 2, then twice the previous wait (2s,
\* 4s, 8s before attempts 3, 4 and 5).
C33_ExponentialBackoff ==
    \A i \in Workers :
        (worker[i].pc = "upload" /\ worker[i].attempt >= 2) =>
            worker[i].slept = initialRetryDelay * Pow2(worker[i].attempt - 2)

NoPartsUploaded == "failed to complete multipart upload: no parts uploaded"

\* C34: Complete on a stream on which no non-empty part was uploaded
\* returns the error "no parts uploaded", sends no completion request to
\* the store, requests the abort of the session and leaves no object
\* visible under the key.
C34_CompleteWithoutParts ==
    [][(worker[1].pc = "complete" /\ Len(stream[1].parts) = 0
            /\ worker'[1] # worker[1]) =>
          /\ worker'[1].ret.returned
          /\ worker'[1].ret.err = NoPartsUploaded
          /\ s3up'[1].completeRequests = s3up[1].completeRequests
          /\ s3up'[1].completes = 0
          /\ s3up'[1].aborts = s3up[1].aborts + 1
          /\ s3up'[1].state # "completed"
          /\ ~\E o \in objects' : o.key = stream[1].key]_vars

\* Complete was called after a call of UploadPart with empty data.
C34_Witness ==
    /\ call.op = "Complete"
    /\ call.n >= 1
    /\ worker[1].ret.err = NoPartsUploaded
    /\ stream[1].parts = <<>>
    /\ s3up[1].aborts = 1
    /\ s3up[1].completeRequests = 0
    /\ objects = {}

----------------------------------------------------------------------------
(* Claims about the segment package, continued *)

Size(seg) == Hi(seg) - Lo(seg)

RECURSIVE SumSizes(_)
SumSizes(segs) == IF segs = <<>> THEN 0 ELSE Size(Head(segs)) + SumSizes(Tail(segs))

\* C35: for every n in 1..256 the first (256 mod n) segments of
\* SegmentHashSpace(n) span floor(256/n)+1 values each and the others
\* floor(256/n), so the sizes never increase with the index, differ by at
\* most 1 and sum to 256.
C35_SegmentSizes ==
    (call.op = "SegmentHashSpace" /\ call.n \in 1..256) =>
        LET segs == call.ret.segs
            n    == call.n
        IN  /\ Len(segs) = n
            /\ \A i \in 1..n :
                  Size(segs[i]) = IF i - 1 < 256 % n THEN 256 \div n + 1
                                  ELSE 256 \div n
            /\ \A i \in 1..(n - 1) : Size(segs[i]) >= Size(segs[i + 1])
            /\ Size(segs[1]) - Size(segs[n]) <= 1
            /\ SumSizes(segs) = 256

C35_Witness ==
    /\ call.op = "SegmentHashSpace"
    /\ call.n = 3
    /\ Size(call.ret.segs[1]) = 86
    /\ Size(call.ret.segs[2]) = 85
    /\ Size(call.ret.segs[3]) = 85

\* C36: for n in 1..256 and 0 <= i < n, SegmentToHexRange(i, n) returns the
\* StartHex and EndHex of segment i of SegmentHashSpace(n); for i < 0,
\* i >= n or n outside 1..256 it returns an error and empty boundaries.
C36_SegmentToHexRangeAgrees ==
    call.op = "SegmentToHexRange" =>
        IF call.n \in 1..256 /\ 0 <= call.index /\ call.index < call.n
        THEN /\ ~call.ret.err
             /\ call.ret.start = segments[call.index + 1].StartHex
             /\ call.ret.end = segments[call.index + 1].EndHex
             /\ segments[call.index + 1].Index = call.index
        ELSE /\ call.ret.err
             /\ call.ret.start = <<>>
             /\ call.ret.end = <<>>

C36_Witness ==
    /\ call.op = "SegmentToHexRange"
    /\ call.n = 3
    /\ call.index = 1
    /\ call.ret.start = <<5, 6>>
    /\ call.ret.end = <<10, 11>>
    /\ ~call.ret.err

\* C37: for every segment other than the last and every hex key of at least
\* two characters, the reader's filter key >= s AND key < e selects the key
\* exactly when its two-character prefix p satisfies s <= p < e, that is
\* exactly when HashInSegment(key, segment) is true.
C37_FilterIsPrefixMatch ==
    (call.op = "querySegmentInTx" /\ Len(call.hash) >= 2) =>
        LET v == HexToInt(SubSeq(call.hash, 1, 2))
        IN  \A i \in 1..(Len(segments) - 1) :
                /\ (i \in call.ret) <=> (Lo(segments[i]) <= v /\ v < Hi(segments[i]))
                /\ (i \in call.ret) <=> HashInSegment(call.hash, segments[i])

\* A key of two characters that is the boundary between two segments.
C37_Witness ==
    /\ call.op = "querySegmentInTx"
    /\ cfgSegments = 4
    /\ call.hash = <<8, 0>>
    /\ call.ret = {3}

----------------------------------------------------------------------------
(* Claims about the life of a session *)

\* The exporter is about to call UploadPart or Complete only on a session
\* that has neither been completed nor had an abort requested; Complete is
\* requested at most once; no abort is requested after a completion.
SessionUsedWhileOpen(i) ==
    /\ worker[i].pc \in {"upload", "complete"} =>
          s3up[i].aborts = 0 /\ s3up[i].completes = 0
    /\ s3up[i].completeRequests <= 1
    /\ s3up[i].completes <= 1
    /\ s3up[i].completes > 0 => s3up[i].aborts = 0

\* Once ExportSegment has returned, the session it created has reached
\* exactly one terminal state: completed, or abort requested (once).
SessionEndedOnce(i) ==
    (worker[i].ret.returned /\ stream[i].created) =>
        s3up[i].completes + s3up[i].aborts = 1

\* C38: for each session Complete is invoked at most once, UploadPart and
\* Complete are never invoked after the session was aborted or completed,
\* Abort is never invoked after a successful Complete, and the session
\* ends in exactly one terminal state, Completed or Aborted.
C38_SessionLifecycle ==
    \A i \in Workers : SessionUsedWhileOpen(i) /\ SessionEndedOnce(i)

----------------------------------------------------------------------------
(* Termination *)

\* ExportSegment of segment i is called, and has returned.
ExportStarts(i) == IF i \in Workers THEN worker[i].pc = "start" ELSE FALSE
ExportReturned(i) == IF i \in Workers THEN worker[i].ret.returned ELSE FALSE

----------------------------------------------------------------------------
(* Claims about ExecuteLoadDataSQL *)

AllPingsFailed ==
    Len(call.pings) = PingAttempts /\ \A k \in 1..Len(call.pings) : ~call.pings[k]

\* C40: the validation pings Aurora up to 3 times; once it is over, the
\* statements are executed when one of the pings succeeded, and the
\* connection error is returned when, and only when, all 3 failed.
C40_PingValidation ==
    /\ Len(call.pings) <= 3
    /\ call.pc \in {"exec", "returned"} /\ call.pings # <<>> =>
          /\ AllPingsFailed => call.pc = "returned" /\ call.ret = ConnectionError
          /\ ~AllPingsFailed => call.ret # ConnectionError
          /\ ~AllPingsFailed => call.pings[Len(call.pings)]

====
